---- MODULE Spec2Model ----
(***************************************************************************)
(* Model of the sensor acquisition pipeline of HerculesPi                  *)
(* (src/src/sensors.rs): SensorManager, its background acquisition thread, *)
(* the bounded crossbeam channel between them, the shared snapshot, device *)
(* discovery and the payload decoder.                                      *)
(***************************************************************************)
EXTENDS Integers, Sequences, FiniteSets, TLC

VARIABLES
    enabled,      \* SensorManager.config.enabled
    caller,       \* position of the owner of the Manager
    receiver,     \* SensorManager.receiver: "None", "Some", or "Dropped"
    data,         \* SensorManager.data, the Arc<Mutex<SensorData>> snapshot
    queue,        \* items buffered in the bounded(10) channel
    pc,           \* position of the spawned thread
    cur,          \* the thread's Result of read_sensor_data
    last_data,    \* the thread's local last_data
    device,       \* the HidDevice moved into the thread
    clock,        \* number of Instant::now() values handed out
    startRet,     \* what start() returned
    initRet,      \* what initialize_sensors returned
    hidInits,     \* number of HidApi::new() calls
    discoveries,  \* number of find_supported_sensor calls
    recv,         \* what the last try_receive_update call returned
    produced,     \* history: outcomes of read_sensor_data, in order
    delivered,    \* history: items returned by try_receive_update, in order
    fresh,        \* history: an item was enqueued since the previous call
    burst,        \* history: the channel overran before the first call
    odd,          \* number of reads that did not return the regular frame
    waited,       \* history: the thread was waiting in send() when the receiver went
    retired,      \* the threads of earlier start() calls: [pc, cur, last_data]
    probe,        \* a payload or host handed to the decoder or to discovery, and the result
    file_config,  \* the HerculesConfig of hercules.toml
    update_interval_ms,   \* config.update_interval_ms of the Manager
    setRet,       \* what the last set_property call returned
    file_exists,  \* hercules.toml exists
    confRet,      \* what the last handle_conf_command call returned and did
    confs,        \* number of conf commands run one after the other
    lock,         \* who holds the Mutex of the snapshot
    reader,       \* the owner's position in get_latest_data
    latest,       \* what the last get_latest_data call returned
    last_sensor_data      \* SystemResources.last_sensor_data

vars == <<enabled, caller, receiver, data, queue, pc, cur, last_data, device,
          clock, startRet, initRet, hidInits, discoveries, recv,
          produced, delivered, fresh, burst, odd, waited, retired, probe,
          file_config, update_interval_ms, setRet, file_exists, confRet, confs,
          lock, reader, latest, last_sensor_data>>

(* The state that only the specifications of single parts use *)
restartVars == <<retired>>

decoderVars == <<probe>>

configVars ==
    <<file_config, update_interval_ms, setRet, file_exists, confRet, confs>>

lockVars == <<lock, reader, latest>>

displayVars == <<last_sensor_data>>

sideVars == <<restartVars, decoderVars, configVars, lockVars, displayVars>>

----------------------------------------------------------------------------
(* Bounds *)

MaxReads == 11     \* reads the device answers before the model stops
MaxOdd == 1        \* reads that may fail or return an irregular frame
MaxStarts == 2     \* start() calls on one Manager that reach HidApi::new()
MaxRestartReads == 2   \* reads of one thread where start() is called again
MaxDevices == 3    \* devices attached to a host handed to discovery
MaxLockReads == 2  \* reads of the thread where the Mutex is followed step by step
MaxFrameReads == 3 \* reads of the thread where the device sends frames of several sizes
MaxDisplayReads == 4   \* reads of the thread that feeds SystemResources::refresh
MaxConfs == 2      \* conf commands run one after the other, over every property

(* Program constants *)

Capacity == 10     \* bounded(10)
BufSize == 64      \* [0u8; 64]
AccelDiv == 16384
GyroDiv == 131

----------------------------------------------------------------------------
(* f32 values.  A value decoded by parse_float is kept as its bit pattern; *)
(* a value of the 16-bit fallback is kept as the quotient raw / divisor.   *)

(* A bit pattern is held as its two 16-bit halves.                         *)

F32Bits(hi, lo) == [k |-> "bits", a |-> hi, b |-> lo]

F32Zero == F32Bits(0, 0)

F32Ratio(n, d) == IF n = 0 THEN F32Zero ELSE [k |-> "ratio", a |-> n, b |-> d]

Zero3 == <<F32Zero, F32Zero, F32Zero>>

(* Variant of DefaultData: a default that is not all zero *)
DefaultDataWarm(t) ==
    [timestamp |-> t, acceleration |-> Zero3, gyro |-> Zero3,
     orientation |-> Zero3, temperature |-> F32Bits(16840, 0)]

(* SensorData::default() evaluated at instant t *)
DefaultData(t) ==
    [timestamp |-> t, acceleration |-> Zero3, gyro |-> Zero3,
     orientation |-> Zero3, temperature |-> F32Zero]

(* The four measured fields of a reading, without the timestamp *)
Fields(r) == <<r.acceleration, r.gyro, r.orientation, r.temperature>>

ZeroFields == <<Zero3, Zero3, Zero3, F32Zero>>

----------------------------------------------------------------------------
(* Results carried by the channel, Result<SensorData, SensorError>, are   *)
(* records [n, tag, data, err]: tag is "Ok" or "Err", and n the position   *)
(* of the outcome in the thread's read order.  What try_receive_update     *)
(* returns is such a record, or NoItem for None.                           *)

NoData == DefaultData(0)

NoItem == [n |-> 0, tag |-> "None", data |-> NoData, err |-> ""]

NoCall == [n |-> 0, tag |-> "NoCall", data |-> NoData, err |-> ""]

----------------------------------------------------------------------------
(* Integer helpers *)

(* Variant of ToI16: the pair is combined as an unsigned 16-bit value *)
ToI16Unsigned(hi, lo) == (hi * 256 + lo) % 65536

(* (((hi as i16) << 8) | lo as i16): the pair as a two's-complement i16 *)
ToI16(hi, lo) ==
    LET u == (hi * 256 + lo) % 65536
    IN  IF u >= 32768 THEN u - 65536 ELSE u

(* Variant of parse_float: the byte at the lowest offset is taken as the   *)
(* most significant                                                        *)
parse_float_be(bytes) ==
    IF Len(bytes) < 4 THEN F32Zero
    ELSE F32Bits(bytes[2] + bytes[1] * 256, bytes[4] + bytes[3] * 256)

(* parse_float: four bytes, lowest offset least significant *)
parse_float(bytes) ==
    IF Len(bytes) < 4 THEN F32Zero
    ELSE F32Bits(bytes[3] + bytes[4] * 256, bytes[1] + bytes[2] * 256)

(* &buf[from..to]; the model keeps buf[i] of the code at position i + 1 *)
Slice(buf, from, to) == [i \in 1..(to - from) |-> buf[from + i]]

(* buf[i] of the code *)
At(buf, i) == buf[i + 1]

----------------------------------------------------------------------------
(* What device.read_timeout(&mut buf, 100) hands back: an error of the     *)
(* host, or the number of bytes written into the zeroed 64-byte buffer.    *)

HidError == [ok |-> FALSE, size |-> 0, buf |-> [i \in 1..BufSize |-> 0], msg |-> "hid error"]

ReadOf(size, bytes) ==
    [ok |-> TRUE, size |-> size,
     buf |-> [i \in 1..BufSize |-> IF i <= size THEN bytes[i] ELSE 0],
     msg |-> ""]

(* The 16-bit fallback of read_sensor_data *)
Fixed16(buf, i, div) == F32Ratio(ToI16(At(buf, i), At(buf, i + 1)), div)

(* Variant of Decode: the fields the payload does not reach keep the values *)
(* of the thread's previous reading instead of those of a fresh default     *)
DecodeOntoLast(r) ==
    LET buf == r.buf
        size == r.size
        acceleration ==
            IF size >= 16 THEN
                <<parse_float(Slice(buf, 0, 4)), parse_float(Slice(buf, 4, 8)),
                  parse_float(Slice(buf, 8, 12))>>
            ELSE IF size >= 6 THEN
                <<Fixed16(buf, 0, AccelDiv), Fixed16(buf, 2, AccelDiv),
                  Fixed16(buf, 4, AccelDiv)>>
            ELSE last_data.acceleration
        gyro ==
            IF size >= 16 THEN
                IF size >= 24 THEN
                    <<parse_float(Slice(buf, 12, 16)), parse_float(Slice(buf, 16, 20)),
                      parse_float(Slice(buf, 20, 24))>>
                ELSE last_data.gyro
            ELSE IF size >= 12 THEN
                <<Fixed16(buf, 6, GyroDiv), Fixed16(buf, 8, GyroDiv),
                  Fixed16(buf, 10, GyroDiv)>>
            ELSE last_data.gyro
        temperature ==
            IF size >= 28 THEN parse_float(Slice(buf, 24, 28))
            ELSE last_data.temperature
        orientation ==
            IF size >= 40 THEN
                <<parse_float(Slice(buf, 28, 32)), parse_float(Slice(buf, 32, 36)),
                  parse_float(Slice(buf, 36, 40))>>
            ELSE last_data.orientation
    IN  [DefaultData(0) EXCEPT !.acceleration = acceleration, !.gyro = gyro,
                                !.orientation = orientation,
                                !.temperature = temperature]

(* Variant of Decode: the float layout reads the gyro without looking at  *)
(* the size again                                                          *)
DecodeGyroUnguarded(r) ==
    LET buf == r.buf
        size == r.size
        acceleration ==
            IF size >= 16 THEN
                <<parse_float(Slice(buf, 0, 4)), parse_float(Slice(buf, 4, 8)),
                  parse_float(Slice(buf, 8, 12))>>
            ELSE IF size >= 6 THEN
                <<Fixed16(buf, 0, AccelDiv), Fixed16(buf, 2, AccelDiv),
                  Fixed16(buf, 4, AccelDiv)>>
            ELSE Zero3
        gyro ==
            IF size >= 16 THEN
                <<parse_float(Slice(buf, 12, 16)), parse_float(Slice(buf, 16, 20)),
                  parse_float(Slice(buf, 20, 24))>>
            ELSE IF size >= 12 THEN
                <<Fixed16(buf, 6, GyroDiv), Fixed16(buf, 8, GyroDiv),
                  Fixed16(buf, 10, GyroDiv)>>
            ELSE Zero3
        temperature ==
            IF size >= 28 THEN parse_float(Slice(buf, 24, 28)) ELSE F32Zero
        orientation ==
            IF size >= 40 THEN
                <<parse_float(Slice(buf, 28, 32)), parse_float(Slice(buf, 32, 36)),
                  parse_float(Slice(buf, 36, 40))>>
            ELSE Zero3
    IN  [DefaultData(0) EXCEPT !.acceleration = acceleration, !.gyro = gyro,
                                !.orientation = orientation,
                                !.temperature = temperature]

(* The match arm of read_sensor_data for size > 0, up to the final        *)
(* data.timestamp = Instant::now(): the fields decoded from the buffer     *)
Decode(r) ==
    LET buf == r.buf
        size == r.size
        acceleration ==
            IF size >= 16 THEN
                <<parse_float(Slice(buf, 0, 4)), parse_float(Slice(buf, 4, 8)),
                  parse_float(Slice(buf, 8, 12))>>
            ELSE IF size >= 6 THEN
                <<Fixed16(buf, 0, AccelDiv), Fixed16(buf, 2, AccelDiv),
                  Fixed16(buf, 4, AccelDiv)>>
            ELSE Zero3
        gyro ==
            IF size >= 16 THEN
                IF size >= 24 THEN
                    <<parse_float(Slice(buf, 12, 16)), parse_float(Slice(buf, 16, 20)),
                      parse_float(Slice(buf, 20, 24))>>
                ELSE Zero3
            ELSE IF size >= 12 THEN
                <<Fixed16(buf, 6, GyroDiv), Fixed16(buf, 8, GyroDiv),
                  Fixed16(buf, 10, GyroDiv)>>
            ELSE Zero3
        temperature ==
            IF size >= 28 THEN parse_float(Slice(buf, 24, 28)) ELSE F32Zero
        orientation ==
            IF size >= 40 THEN
                <<parse_float(Slice(buf, 28, 32)), parse_float(Slice(buf, 32, 36)),
                  parse_float(Slice(buf, 36, 40))>>
            ELSE Zero3
    IN  [DefaultData(0) EXCEPT !.acceleration = acceleration, !.gyro = gyro,
                                !.orientation = orientation,
                                !.temperature = temperature]

(* Variant of read_sensor_data: zero bytes give a default reading *)
read_sensor_data_zero_default(r, d, t) ==
    IF r.ok /\ r.size > 0 THEN
        [tag |-> "Ok", data |-> [d EXCEPT !.timestamp = t], err |-> ""]
    ELSE IF r.ok THEN [tag |-> "Ok", data |-> DefaultData(t), err |-> ""]
    ELSE [tag |-> "Err", data |-> NoData, err |-> r.msg]

(* Variant of read_sensor_data: a frame too short for any layout is an     *)
(* error                                                                   *)
read_sensor_data_short_is_error(r, d, t) ==
    IF r.ok /\ r.size >= 6 THEN
        [tag |-> "Ok", data |-> [d EXCEPT !.timestamp = t], err |-> ""]
    ELSE IF r.ok /\ r.size > 0 THEN
        [tag |-> "Err", data |-> NoData, err |-> "Short read"]
    ELSE IF r.ok THEN [tag |-> "Err", data |-> NoData, err |-> "Zero bytes read"]
    ELSE [tag |-> "Err", data |-> NoData, err |-> r.msg]

(* read_sensor_data, given the result r of read_timeout, the fields d      *)
(* decoded from r and the instant t that Instant::now() returns            *)
read_sensor_data(r, d, t) ==
    IF r.ok /\ r.size > 0 THEN
        [tag |-> "Ok", data |-> [d EXCEPT !.timestamp = t], err |-> ""]
    ELSE IF r.ok THEN [tag |-> "Err", data |-> NoData, err |-> "Zero bytes read"]
    ELSE [tag |-> "Err", data |-> NoData, err |-> r.msg]

----------------------------------------------------------------------------
(* Device discovery.  Strings are sequences of characters.                 *)

Upper == <<"A","B","C","D","E","F","G","H","I","J","K","L","M",
           "N","O","P","Q","R","S","T","U","V","W","X","Y","Z">>

LowerOf == <<"a","b","c","d","e","f","g","h","i","j","k","l","m",
             "n","o","p","q","r","s","t","u","v","w","x","y","z">>

(* str::to_lowercase *)
to_lowercase(s) ==
    [i \in 1..Len(s) |->
        IF \E j \in 1..Len(Upper) : Upper[j] = s[i]
        THEN LowerOf[CHOOSE j \in 1..Len(Upper) : Upper[j] = s[i]]
        ELSE s[i]]

(* str::contains *)
contains(s, kw) ==
    \E off \in 0..(Len(s) - Len(kw)) : \A i \in 1..Len(kw) : s[off + i] = kw[i]

(* supported_sensors: (vendor_id, product_id, description) *)
supported_sensors ==
    << [vid |-> 5824, pid |-> 1158,  description |-> "MPU-6050"],
       [vid |-> 9025, pid |-> 32822, description |-> "Arduino Leonardo"],
       [vid |-> 6991, pid |-> 37382, description |-> "SparkFun 9DoF"],
       [vid |-> 1356, pid |-> 2508,  description |-> "Sony DualShock 4"],
       [vid |-> 1406, pid |-> 8201,  description |-> "Nintendo Switch Pro Controller"] >>

NotFound == [found |-> FALSE, vid |-> 0, pid |-> 0]

Opened(vid, pid) == [found |-> TRUE, vid |-> vid, pid |-> pid]

(* api.open(vendor_id, product_id): the first attached device with these   *)
(* identifiers, if the host lets it be opened                              *)
ApiOpen(api, vid, pid) ==
    LET hits == {i \in 1..Len(api) : api[i].vid = vid /\ api[i].pid = pid}
    IN  IF hits = {} THEN NotFound
        ELSE LET first == CHOOSE i \in hits : \A j \in hits : i <= j
             IN  IF api[first].openable THEN Opened(vid, pid) ELSE NotFound

(* The test of the name scan on one device_info *)
LooksLikeImu(info) ==
    LET product == to_lowercase(info.product)
        manufacturer == to_lowercase(info.manufacturer)
    IN  \/ contains(product, <<"g","y","r","o">>)
        \/ contains(product, <<"a","c","c","e","l">>)
        \/ contains(product, <<"i","m","u">>)
        \/ contains(product, <<"m","o","t","i","o","n">>)
        \/ contains(manufacturer, <<"g","y","r","o">>)
        \/ contains(manufacturer, <<"a","c","c","e","l">>)

(* First loop of find_supported_sensor: the table, from entry i on *)
RECURSIVE ExactMatch(_, _)
ExactMatch(api, i) ==
    IF i > Len(supported_sensors) THEN NotFound
    ELSE LET d == ApiOpen(api, supported_sensors[i].vid, supported_sensors[i].pid)
         IN  IF d.found THEN d ELSE ExactMatch(api, i + 1)

(* Second loop of find_supported_sensor: api.device_list(), from entry i on *)
RECURSIVE NameScan(_, _)
NameScan(api, i) ==
    IF i > Len(api) THEN NotFound
    ELSE LET d == IF LooksLikeImu(api[i])
                  THEN ApiOpen(api, api[i].vid, api[i].pid)
                  ELSE NotFound
         IN  IF d.found THEN d ELSE NameScan(api, i + 1)

(* Variant of find_supported_sensor: the attached devices are walked in   *)
(* the order of the host and the first one found in the table is opened    *)
find_supported_sensor_by_enumeration(api) ==
    LET hits == {j \in 1..Len(api) :
                    /\ api[j].openable
                    /\ \E i \in 1..Len(supported_sensors) :
                          /\ supported_sensors[i].vid = api[j].vid
                          /\ supported_sensors[i].pid = api[j].pid}
    IN  IF hits = {} THEN NameScan(api, 1)
        ELSE LET j == CHOOSE k \in hits : \A m \in hits : k <= m
             IN  Opened(api[j].vid, api[j].pid)

find_supported_sensor(api) ==
    LET exact == ExactMatch(api, 1)
    IN  IF exact.found THEN exact ELSE NameScan(api, 1)

(* Attached devices the model explores *)
Dev(vid, pid, product, manufacturer, openable) ==
    [vid |-> vid, pid |-> pid, product |-> product,
     manufacturer |-> manufacturer, openable |-> openable]

DualShock(openable) ==
    Dev(1356, 2508, <<"W","i","r","e","l","e","s","s">>, <<"S","o","n","y">>, openable)

Mpu(openable) ==
    Dev(5824, 1158, <<"M","P","U">>, <<"P","J","R","C">>, openable)

UsbGyro(openable) ==
    Dev(4660, 1, <<"U","S","B"," ","G","Y","R","O">>, <<>>, openable)

ImuCorp(openable) ==
    Dev(4660, 2, <<"S","e","n","s","o","r">>, <<"I","M","U"," ","C","o","r","p">>, openable)

SwitchPro(openable) ==
    Dev(1406, 8201, <<"P","r","o"," ","P","a","d">>, <<"N","i","n","t","e","n","d","o">>,
        openable)

Keyboard == Dev(4660, 3, <<"K","e","y","b","o","a","r","d">>, <<"A","c","m","e">>, TRUE)

Hosts ==
    { <<>>,
      <<Keyboard>>,
      <<Keyboard, DualShock(TRUE), Mpu(TRUE)>>,
      <<Keyboard, UsbGyro(FALSE)>>,
      <<ImuCorp(TRUE)>> }

----------------------------------------------------------------------------
(* Reads the device answers with *)

(* 40 bytes, every component the float 1.0 (0x3F800000, little-endian) *)
RegularRead == ReadOf(40, [i \in 1..40 |-> <<0, 0, 128, 63>>[((i - 1) % 4) + 1]])

(* a timeout: read_timeout returns Ok(0) *)
ZeroRead == ReadOf(0, <<>>)

Reads == {RegularRead, ZeroRead, HidError}

(* Decode, tabulated over the reads of the model *)
Decoded == [r \in Reads |-> Decode(r)]

(* The message of the ReadError a failed read leads to *)
ErrorOf(r) == read_sensor_data(r, NoData, 0).err

----------------------------------------------------------------------------
(* Configuration *)

(* SensorConfig::default() *)
SensorConfigDefault ==
    [enabled |-> FALSE, update_interval_ms |-> 100, use_celsius |-> TRUE]

(* HerculesConfig::default() *)
HerculesConfigDefault ==
    [update_interval_ms |-> 1000, show_cpu |-> TRUE, show_memory |-> TRUE,
     show_disk |-> TRUE, show_network |-> TRUE, show_processes |-> FALSE,
     max_processes |-> 10, continuous |-> TRUE, show_compact_mode |-> FALSE,
     show_installer |-> FALSE, show_sensors |-> FALSE,
     sensor_config |-> SensorConfigDefault]

(* str::parse::<u64>: an optional "+", then one or more ASCII digits.     *)
(* (The values of the model stay far below u64::MAX.)                      *)
Digits == <<"0","1","2","3","4","5","6","7","8","9">>

IsDigit(c) == \E d \in 1..Len(Digits) : Digits[d] = c

DigitValue(c) == (CHOOSE d \in 1..Len(Digits) : Digits[d] = c) - 1

RECURSIVE DigitsValue(_, _)
DigitsValue(s, acc) ==
    IF s = <<>> THEN acc
    ELSE DigitsValue(Tail(s), acc * 10 + DigitValue(Head(s)))

parse_u64(s) ==
    LET body == IF s # <<>> /\ Head(s) = "+" THEN Tail(s) ELSE s
    IN  IF body = <<>> \/ \E i \in 1..Len(body) : ~IsDigit(body[i])
        THEN [ok |-> FALSE, value |-> 0]
        ELSE [ok |-> TRUE, value |-> DigitsValue(body, 0)]

(* ConfigManager::parse_bool *)
parse_bool(value) ==
    LET v == to_lowercase(value)
    IN  IF v \in { <<"t","r","u","e">>, <<"1">>, <<"y","e","s">>, <<"o","n">>,
                   <<"e","n","a","b","l","e">>, <<"e","n","a","b","l","e","d">> }
        THEN [ok |-> TRUE, value |-> TRUE]
        ELSE IF v \in { <<"f","a","l","s","e">>, <<"0">>, <<"n","o">>, <<"o","f","f">>,
                        <<"d","i","s","a","b","l","e">>,
                        <<"d","i","s","a","b","l","e","d">> }
        THEN [ok |-> TRUE, value |-> FALSE]
        ELSE [ok |-> FALSE, value |-> FALSE]

(* The result of set_property: Ok(()) with the config as changed, or an    *)
(* Err with the config as it was                                           *)
SetOk(config) == [ret |-> "Ok", config |-> config]

SetErr(config, msg) == [ret |-> msg, config |-> config]

(* A boolean property of set_property *)
SetBool(config, field, value) ==
    LET b == parse_bool(value)
    IN  IF b.ok THEN SetOk([config EXCEPT ![field] = b.value])
        ELSE SetErr(config, "Err: Invalid boolean value")

(* Variant of set_property: show_sensors leaves sensor_config.enabled alone *)
set_property_show_only(config, property, value) ==
    CASE property = "update_interval_ms" ->
            LET n == parse_u64(value)
            IN  IF n.ok THEN SetOk([config EXCEPT !.update_interval_ms = n.value])
                ELSE SetErr(config, "Err: Invalid number format for update_interval_ms")
      [] property \in {"show_cpu", "show_memory", "show_disk", "show_network",
                       "show_processes", "continuous", "show_compact_mode",
                       "show_installer"} ->
            SetBool(config, property, value)
      [] property = "max_processes" ->
            LET n == parse_u64(value)
            IN  IF n.ok THEN SetOk([config EXCEPT !.max_processes = n.value])
                ELSE SetErr(config, "Err: Invalid number format for max_processes")
      [] property = "show_sensors" ->
            LET b == parse_bool(value)
            IN  IF b.ok
                THEN SetOk([config EXCEPT !.show_sensors = b.value])
                ELSE SetErr(config, "Err: Invalid boolean value")
      [] property = "sensor_update_interval_ms" ->
            LET n == parse_u64(value)
            IN  IF n.ok
                THEN SetOk([config EXCEPT !.sensor_config.update_interval_ms = n.value])
                ELSE SetErr(config,
                            "Err: Invalid number format for sensor_update_interval_ms")
      [] property = "sensor_use_celsius" ->
            LET b == parse_bool(value)
            IN  IF b.ok THEN SetOk([config EXCEPT !.sensor_config.use_celsius = b.value])
                ELSE SetErr(config, "Err: Invalid boolean value")
      [] OTHER -> SetErr(config, "Err: Unknown property")

(* ConfigManager::set_property *)
set_property(config, property, value) ==
    CASE property = "update_interval_ms" ->
            LET n == parse_u64(value)
            IN  IF n.ok THEN SetOk([config EXCEPT !.update_interval_ms = n.value])
                ELSE SetErr(config, "Err: Invalid number format for update_interval_ms")
      [] property \in {"show_cpu", "show_memory", "show_disk", "show_network",
                       "show_processes", "continuous", "show_compact_mode",
                       "show_installer"} ->
            SetBool(config, property, value)
      [] property = "max_processes" ->
            LET n == parse_u64(value)
            IN  IF n.ok THEN SetOk([config EXCEPT !.max_processes = n.value])
                ELSE SetErr(config, "Err: Invalid number format for max_processes")
      [] property = "show_sensors" ->
            LET b == parse_bool(value)
            IN  IF b.ok
                THEN SetOk([config EXCEPT !.show_sensors = b.value,
                                          !.sensor_config.enabled = b.value])
                ELSE SetErr(config, "Err: Invalid boolean value")
      [] property = "sensor_update_interval_ms" ->
            LET n == parse_u64(value)
            IN  IF n.ok
                THEN SetOk([config EXCEPT !.sensor_config.update_interval_ms = n.value])
                ELSE SetErr(config,
                            "Err: Invalid number format for sensor_update_interval_ms")
      [] property = "sensor_use_celsius" ->
            LET b == parse_bool(value)
            IN  IF b.ok THEN SetOk([config EXCEPT !.sensor_config.use_celsius = b.value])
                ELSE SetErr(config, "Err: Invalid boolean value")
      [] OTHER -> SetErr(config, "Err: Unknown property")

(* main: the file's config converted to a MonitorConfig, then overridden  *)
(* by the command line: "hercules sensors", "hercules --sensors", or       *)
(* neither                                                                 *)
MonitorConfig(config, arg) ==
    CASE arg = "sensors" ->
            [config EXCEPT !.show_sensors = TRUE,
                           !.sensor_config.enabled = TRUE,
                           !.continuous = FALSE]
      [] arg = "--sensors" ->
            [config EXCEPT !.show_sensors = TRUE,
                           !.sensor_config.enabled = TRUE,
                           !.sensor_config.update_interval_ms =
                               config.update_interval_ms \div 10]
      [] OTHER -> config

(* handle_conf_command has not been called *)
NoConf == [ret |-> "none", created |-> FALSE, saved |-> FALSE]

(* No payload or host has been handed to the decoder or to discovery *)
NoProbe == [kind |-> "none", size |-> 0, input |-> <<>>, out |-> <<>>]

----------------------------------------------------------------------------
(* SensorManager::new, with either value of config.enabled *)

Init ==
    /\ enabled \in BOOLEAN
    /\ caller = "constructed"
    /\ receiver = "None"
    /\ data = DefaultData(0)
    /\ queue = <<>>
    /\ pc = "NotStarted"
    /\ cur = NoItem
    /\ last_data = NoData
    /\ device = NotFound
    /\ clock = 1
    /\ startRet = "none"
    /\ initRet = "none"
    /\ hidInits = 0
    /\ discoveries = 0
    /\ recv = NoCall
    /\ produced = <<>>
    /\ delivered = <<>>
    /\ fresh = FALSE
    /\ burst = FALSE
    /\ odd = 0
    /\ waited = FALSE
    /\ retired = <<>>
    /\ probe = NoProbe
    /\ file_config = HerculesConfigDefault
    /\ update_interval_ms = SensorConfigDefault.update_interval_ms
    /\ setRet = "none"
    /\ file_exists = FALSE
    /\ confRet = NoConf
    /\ confs = 0
    /\ lock = "free"
    /\ reader = "idle"
    /\ latest = NoData
    /\ last_sensor_data = NoData

consumerVars == <<recv, delivered, fresh>>

threadVars == <<pc, cur, last_data, device, clock, produced, burst, odd>>

(* Variant of start: config.enabled is not consulted *)
startUnconditional(hidOk, api) ==
    IF FALSE THEN
        /\ startRet' = "Ok"
        /\ UNCHANGED <<hidInits, discoveries, receiver, queue, pc, last_data,
                       device, clock>>
    ELSE
        /\ hidInits' = hidInits + 1
        /\ IF ~hidOk THEN
               /\ startRet' = "Err: Failed to initialize HID API"
               /\ UNCHANGED <<discoveries, receiver, queue, pc, last_data,
                              device, clock>>
           ELSE
               /\ discoveries' = discoveries + 1
               /\ LET found == find_supported_sensor(api)
                  IN  IF ~found.found THEN
                          /\ startRet' = "Err: No compatible sensor found"
                          /\ UNCHANGED <<receiver, queue, pc, last_data, device, clock>>
                      ELSE
                          /\ receiver' = "Some"
                          /\ queue' = <<>>
                          /\ device' = found
                          /\ pc' = "read"
                          /\ last_data' = DefaultData(clock)
                          /\ clock' = clock + 1
                          /\ startRet' = "Ok"

(* Variant of start: the thread is spawned whatever discovery returned *)
startIgnoresNotFound(hidOk, api) ==
    IF ~enabled THEN
        /\ startRet' = "Ok"
        /\ UNCHANGED <<hidInits, discoveries, receiver, queue, pc, last_data,
                       device, clock>>
    ELSE
        /\ hidInits' = hidInits + 1
        /\ IF ~hidOk THEN
               /\ startRet' = "Err: Failed to initialize HID API"
               /\ UNCHANGED <<discoveries, receiver, queue, pc, last_data,
                              device, clock>>
           ELSE
               /\ discoveries' = discoveries + 1
               /\ LET found == find_supported_sensor(api)
                  IN  IF FALSE THEN
                          /\ startRet' = "Err: No compatible sensor found"
                          /\ UNCHANGED <<receiver, queue, pc, last_data, device, clock>>
                      ELSE
                          /\ receiver' = "Some"
                          /\ queue' = <<>>
                          /\ device' = found
                          /\ pc' = "read"
                          /\ last_data' = DefaultData(clock)
                          /\ clock' = clock + 1
                          /\ startRet' = "Ok"

(* Variant of start: a failed HidApi::new() is logged and start returns Ok *)
startSwallowsHidError(hidOk, api) ==
    IF ~enabled THEN
        /\ startRet' = "Ok"
        /\ UNCHANGED <<hidInits, discoveries, receiver, queue, pc, last_data,
                       device, clock>>
    ELSE
        /\ hidInits' = hidInits + 1
        /\ IF ~hidOk THEN
               /\ startRet' = "Ok"
               /\ UNCHANGED <<discoveries, receiver, queue, pc, last_data,
                              device, clock>>
           ELSE
               /\ discoveries' = discoveries + 1
               /\ LET found == find_supported_sensor(api)
                  IN  IF ~found.found THEN
                          /\ startRet' = "Err: No compatible sensor found"
                          /\ UNCHANGED <<receiver, queue, pc, last_data, device, clock>>
                      ELSE
                          /\ receiver' = "Some"
                          /\ queue' = <<>>
                          /\ device' = found
                          /\ pc' = "read"
                          /\ last_data' = DefaultData(clock)
                          /\ clock' = clock + 1
                          /\ startRet' = "Ok"

(* SensorManager::start; hidOk is whether HidApi::new() succeeds and api   *)
(* the devices it then sees                                                *)
start(hidOk, api) ==
    IF ~enabled THEN
        /\ startRet' = "Ok"
        /\ UNCHANGED <<hidInits, discoveries, receiver, queue, pc, last_data,
                       device, clock>>
    ELSE
        /\ hidInits' = hidInits + 1
        /\ IF ~hidOk THEN
               /\ startRet' = "Err: Failed to initialize HID API"
               /\ UNCHANGED <<discoveries, receiver, queue, pc, last_data,
                              device, clock>>
           ELSE
               /\ discoveries' = discoveries + 1
               /\ LET found == find_supported_sensor(api)
                  IN  IF ~found.found THEN
                          /\ startRet' = "Err: No compatible sensor found"
                          /\ UNCHANGED <<receiver, queue, pc, last_data, device, clock>>
                      ELSE
                          /\ receiver' = "Some"
                          /\ queue' = <<>>
                          /\ device' = found
                          /\ pc' = "read"
                          /\ last_data' = DefaultData(clock)
                          /\ clock' = clock + 1
                          /\ startRet' = "Ok"

(* A caller invokes start() on the Manager it constructed *)
Start ==
    /\ caller = "constructed"
    /\ caller' = "ready"
    /\ \E hidOk \in BOOLEAN, api \in Hosts : start(hidOk, api)
    /\ UNCHANGED <<enabled, sideVars, waited, data, cur, initRet, produced, burst, odd, consumerVars>>

(* Variant of initialize_sensors: the error of start() is passed on *)
initialize_sensors_propagates ==
    /\ caller = "constructed"
    /\ caller' = "ready"
    /\ IF enabled
       THEN /\ \E hidOk \in BOOLEAN, api \in Hosts : start(hidOk, api)
            /\ initRet' = IF startRet' = "Ok" THEN "Ok" ELSE "Err"
       ELSE /\ initRet' = "Ok"
            /\ UNCHANGED <<startRet, hidInits, discoveries, receiver, queue, pc,
                           last_data, device, clock>>
    /\ UNCHANGED <<enabled, sideVars, waited, data, cur, produced, burst, odd, consumerVars>>

(* initialize_sensors, as SystemResources::new calls it *)
initialize_sensors ==
    /\ caller = "constructed"
    /\ caller' = "ready"
    /\ initRet' = "Ok"
    /\ IF enabled
       THEN \E hidOk \in BOOLEAN, api \in Hosts : start(hidOk, api)
       ELSE UNCHANGED <<startRet, hidInits, discoveries, receiver, queue, pc,
                        last_data, device, clock>>
    /\ UNCHANGED <<enabled, sideVars, waited, data, cur, produced, burst, odd, consumerVars>>

----------------------------------------------------------------------------
(* The spawned thread *)

(* match read_sensor_data(&device).  A device keeps to one way of failing: *)
(* its reads time out (0 bytes), or the host reports an error.  The model  *)
(* stops reading after MaxReads outcomes while the receiver exists; the    *)
(* read of a thread whose receiver is gone is its last in any case.        *)
LoopRead ==
    /\ pc = "read"
    /\ Len(produced) < MaxReads \/ receiver = "Dropped"
    /\ \E r \in Reads :
        /\ r # RegularRead =>
               /\ odd < MaxOdd
               /\ \A i \in 1..Len(produced) :
                      produced[i].tag = "Err" => produced[i].err = ErrorOf(r)
        /\ odd' = IF r # RegularRead THEN odd + 1 ELSE odd
        /\ LET res == read_sensor_data(r, Decoded[r], clock)
               item == [n |-> Len(produced) + 1, tag |-> res.tag,
                        data |-> res.data, err |-> res.err]
           IN  /\ cur' = item
               /\ produced' = Append(produced, item)
               /\ clock' = IF res.tag = "Ok" THEN clock + 1 ELSE clock
               /\ pc' = IF res.tag = "Ok" THEN "store" ELSE "send"
               /\ burst' = (burst \/ (/\ Len(produced) = Capacity
                                       /\ receiver = "Some"
                                       /\ recv = NoCall))
    /\ UNCHANGED <<enabled, sideVars, waited, caller, receiver, data, queue, last_data, device,
                   startRet, initRet, hidInits, discoveries, consumerVars>>

(* Variant of LoopStore: the reading goes to the channel without having   *)
(* been written to the snapshot                                            *)
LoopStoreSkipped ==
    /\ pc = "store"
    /\ data' = data
    /\ pc' = "send"
    /\ UNCHANGED <<enabled, sideVars, waited, caller, receiver, queue, cur, last_data, device, clock,
                   startRet, initRet, hidInits, discoveries, produced, burst, odd,
                   consumerVars>>

(* if let Ok(mut data) = data_clone.lock() { *data = sensor_data; } *)
LoopStore ==
    /\ pc = "store"
    /\ data' = cur.data
    /\ pc' = "send"
    /\ UNCHANGED <<enabled, sideVars, waited, caller, receiver, queue, cur, last_data, device, clock,
                   startRet, initRet, hidInits, discoveries, produced, burst, odd,
                   consumerVars>>

(* Variant of LoopSend: a try_send that gives up on a full channel *)
LoopSendDropOnFull ==
    /\ pc = "send"
    /\ receiver = "Some"
    /\ IF Len(queue) < Capacity
       THEN queue' = Append(queue, cur) /\ fresh' = TRUE
       ELSE UNCHANGED <<queue, fresh>>
    /\ IF cur.tag = "Ok"
       THEN last_data' = cur.data /\ pc' = "sleep"
       ELSE last_data' = last_data /\ pc' = "restore"
    /\ UNCHANGED <<enabled, sideVars, waited, caller, receiver, data, cur, device, clock, startRet,
                   initRet, hidInits, discoveries, produced, burst, odd, recv,
                   delivered>>

(* Variant of LoopSend: last_data is not updated after a successful send *)
LoopSendForgetsLast ==
    /\ pc = "send"
    /\ receiver = "Some"
    /\ Len(queue) < Capacity
    /\ queue' = Append(queue, cur)
    /\ fresh' = TRUE
    /\ pc' = IF cur.tag = "Ok" THEN "sleep" ELSE "restore"
    /\ UNCHANGED <<enabled, sideVars, waited, caller, receiver, data, cur, last_data, device, clock,
                   startRet, initRet, hidInits, discoveries, produced, burst, odd,
                   recv, delivered>>

(* Variant of LoopSend: the channel is not bounded *)
LoopSendUnbounded ==
    /\ pc = "send"
    /\ receiver = "Some"
    /\ queue' = Append(queue, cur)
    /\ fresh' = TRUE
    /\ IF cur.tag = "Ok"
       THEN last_data' = cur.data /\ pc' = "sleep"
       ELSE last_data' = last_data /\ pc' = "restore"
    /\ UNCHANGED <<enabled, sideVars, waited, caller, receiver, data, cur, device, clock, startRet,
                   initRet, hidInits, discoveries, produced, burst, odd, recv,
                   delivered>>

(* Variant of LoopSend: a read error ends the thread *)
LoopSendBreaksOnErr ==
    /\ pc = "send"
    /\ receiver = "Some"
    /\ Len(queue) < Capacity
    /\ queue' = Append(queue, cur)
    /\ fresh' = TRUE
    /\ IF cur.tag = "Ok"
       THEN last_data' = cur.data /\ pc' = "sleep"
       ELSE last_data' = last_data /\ pc' = "Terminated"
    /\ UNCHANGED <<enabled, sideVars, waited, caller, receiver, data, cur, device, clock, startRet,
                   initRet, hidInits, discoveries, produced, burst, odd, recv,
                   delivered>>

(* sender.send(..) on a channel that has its receiver: waits for a free    *)
(* slot, then enqueues                                                     *)
LoopSend ==
    /\ pc = "send"
    /\ receiver = "Some"
    /\ Len(queue) < Capacity
    /\ queue' = Append(queue, cur)
    /\ fresh' = TRUE
    /\ IF cur.tag = "Ok"
       THEN last_data' = cur.data /\ pc' = "sleep"
       ELSE last_data' = last_data /\ pc' = "restore"
    /\ UNCHANGED <<enabled, sideVars, waited, caller, receiver, data, cur, device, clock, startRet,
                   initRet, hidInits, discoveries, produced, burst, odd, recv,
                   delivered>>

(* Variant of LoopSendDisconnected: the send does not notice that the     *)
(* receiver is gone and keeps waiting                                      *)
LoopSendDisconnectedWaits ==
    /\ pc = "send"
    /\ receiver = "Dropped"
    /\ UNCHANGED vars

(* sender.send(..).is_err(): the receiver is gone; break *)
LoopSendDisconnected ==
    /\ pc = "send"
    /\ receiver = "Dropped"
    /\ pc' = "Terminated"
    /\ UNCHANGED <<enabled, sideVars, waited, caller, receiver, data, queue, cur, last_data, device,
                   clock, startRet, initRet, hidInits, discoveries, produced, burst,
                   odd, consumerVars>>

(* if let Ok(mut data) = data_clone.lock() { *data = last_data; } *)
LoopRestore ==
    /\ pc = "restore"
    /\ data' = last_data
    /\ pc' = "sleep"
    /\ UNCHANGED <<enabled, sideVars, waited, caller, receiver, queue, cur, last_data, device, clock,
                   startRet, initRet, hidInits, discoveries, produced, burst, odd,
                   consumerVars>>

(* thread::sleep(Duration::from_millis(update_interval)) *)
LoopSleep ==
    /\ pc = "sleep"
    /\ pc' = "read"
    /\ UNCHANGED <<enabled, sideVars, waited, caller, receiver, data, queue, cur, last_data, device,
                   clock, startRet, initRet, hidInits, discoveries, produced, burst,
                   odd, consumerVars>>

----------------------------------------------------------------------------
(* The owner of the Manager *)

(* SensorManager::get_latest_data: a copy of the snapshot *)
get_latest_data == data

(* Variant of try_receive_update: the item is read but left in the channel *)
try_receive_peek ==
    /\ caller \in {"constructed", "ready"}
    /\ IF receiver = "Some" /\ queue # <<>>
       THEN /\ recv' = Head(queue)
            /\ queue' = queue
            /\ delivered' = Append(delivered, Head(queue))
       ELSE /\ recv' = NoItem
            /\ UNCHANGED <<queue, delivered>>
    /\ fresh' = FALSE
    /\ UNCHANGED <<enabled, sideVars, waited, caller, receiver, data, startRet, initRet, hidInits,
                   discoveries, pc, cur, last_data, device, clock, produced, burst,
                   odd>>

(* SensorManager::try_receive_update *)
try_receive_update ==
    /\ caller \in {"constructed", "ready"}
    /\ IF receiver = "Some" /\ queue # <<>>
       THEN /\ recv' = Head(queue)
            /\ queue' = Tail(queue)
            /\ delivered' = Append(delivered, Head(queue))
       ELSE /\ recv' = NoItem
            /\ UNCHANGED <<queue, delivered>>
    /\ fresh' = FALSE
    /\ UNCHANGED <<enabled, sideVars, waited, caller, receiver, data, startRet, initRet, hidInits,
                   discoveries, threadVars>>

(* The Manager goes out of scope: its Receiver is dropped with it, and    *)
(* the owner's record of what it received ends                            *)
DropManager ==
    /\ caller \in {"constructed", "ready"}
    /\ caller' = "dropped"
    /\ receiver' = IF receiver = "Some" THEN "Dropped" ELSE receiver
    /\ queue' = <<>>
    /\ recv' = NoCall
    /\ delivered' = <<>>
    /\ fresh' = FALSE
    /\ waited' = (pc = "send" /\ receiver = "Some" /\ Len(queue) = Capacity)
    /\ UNCHANGED <<enabled, sideVars, data, startRet, initRet, hidInits, discoveries,
                   threadVars>>

Next ==
    \/ Start
    \/ initialize_sensors
    \/ LoopRead
    \/ LoopStore
    \/ LoopSend
    \/ LoopSendDisconnected
    \/ LoopRestore
    \/ LoopSleep
    \/ try_receive_update
    \/ DropManager

Spec == Init /\ [][Next]_vars

(* Any step of the spawned thread *)
LoopStep ==
    \/ LoopRead
    \/ LoopStore
    \/ LoopSend
    \/ LoopSendDisconnected
    \/ LoopRestore
    \/ LoopSleep

----------------------------------------------------------------------------
(* start() called again on a Manager that was started before.  start()    *)
(* has no guard against this: it builds a new channel, overwrites          *)
(* self.receiver (which drops the Receiver of the earlier channel) and     *)
(* spawns another thread on a clone of the same Arc<Mutex<SensorData>>.    *)

(* The thread of the earlier start() call, as the new call leaves it *)
Retire == [pc |-> pc, cur |-> cur, last_data |-> last_data]

Restart ==
    /\ caller = "ready"
    /\ hidInits < MaxStarts
    /\ \E hidOk \in BOOLEAN, api \in Hosts :
          /\ start(hidOk, api)
          /\ IF enabled /\ hidOk /\ find_supported_sensor(api).found
             THEN /\ retired' = IF pc = "NotStarted" THEN retired
                                                     ELSE Append(retired, Retire)
                  /\ cur' = NoItem
                  /\ produced' = <<>>
                  /\ delivered' = <<>>
                  /\ fresh' = FALSE
                  /\ burst' = FALSE
                  /\ odd' = 0
             ELSE UNCHANGED <<retired, cur, produced, delivered, fresh, burst, odd>>
    /\ UNCHANGED <<enabled, caller, data, initRet, recv, waited,
                   decoderVars, configVars, lockVars, displayVars>>

(* One step of the thread of an earlier start() call.  The Receiver of    *)
(* its channel is gone, so its next send() returns Err and it breaks; up   *)
(* to there it runs the same loop body on the same snapshot.               *)
RetiredStep(i) ==
    LET t == retired[i]
    IN  /\ t.pc \in {"read", "store", "send", "restore", "sleep"}
        /\ \/ /\ t.pc = "read"
              /\ \E r \in Reads :
                    LET res == read_sensor_data(r, Decoded[r], clock)
                        item == [n |-> t.cur.n + 1, tag |-> res.tag,
                                 data |-> res.data, err |-> res.err]
                    IN  /\ retired' = [retired EXCEPT ![i].cur = item,
                                          ![i].pc = IF res.tag = "Ok" THEN "store"
                                                                      ELSE "send"]
                        /\ clock' = IF res.tag = "Ok" THEN clock + 1 ELSE clock
              /\ data' = data
           \/ /\ t.pc = "store"
              /\ data' = t.cur.data
              /\ retired' = [retired EXCEPT ![i].pc = "send"]
              /\ clock' = clock
           \/ /\ t.pc = "send"
              /\ retired' = [retired EXCEPT ![i].pc = "Terminated"]
              /\ UNCHANGED <<data, clock>>
           \/ /\ t.pc = "restore"
              /\ data' = t.last_data
              /\ retired' = [retired EXCEPT ![i].pc = "sleep"]
              /\ clock' = clock
           \/ /\ t.pc = "sleep"
              /\ retired' = [retired EXCEPT ![i].pc = "read"]
              /\ UNCHANGED <<data, clock>>
        /\ UNCHANGED <<enabled, caller, receiver, queue, pc, cur, last_data, device,
                       startRet, initRet, hidInits, discoveries, produced, burst,
                       odd, waited, consumerVars, decoderVars, configVars, lockVars, displayVars>>

RetiredLoop == \E i \in 1..Len(retired) : RetiredStep(i)

RestartNext ==
    \/ Start
    \/ Restart
    \/ LoopRead /\ Len(produced) < MaxRestartReads
    \/ LoopStore
    \/ LoopSend
    \/ LoopRestore
    \/ LoopSleep
    \/ RetiredLoop
    \/ try_receive_update

RestartSpec == Init /\ [][RestartNext]_vars

----------------------------------------------------------------------------
(* The decoder on its own: read_sensor_data on payloads of every size.     *)
(* Each behaviour hands one input to the function under study.             *)

(* Contents of the 64-byte buffer: the byte at offset i is f[i + 1] *)
Fills ==
    { [i \in 1..BufSize |-> 0],
      [i \in 1..BufSize |-> 1],
      [i \in 1..BufSize |-> 255],
      [i \in 1..BufSize |-> i] }

(* A buffer of zeros with the bytes bs written from offset off on *)
Placed(bs, off) ==
    [i \in 1..BufSize |-> IF i > off /\ i <= off + Len(bs) THEN bs[i - off] ELSE 0]

(* f32::to_le_bytes of the bit pattern hi * 65536 + lo *)
to_le_bytes(hi, lo) == <<lo % 256, lo \div 256, hi % 256, hi \div 256>>

(* The ten f32 components of a reading, in the order of the float layout *)
Components(d) ==
    <<d.acceleration[1], d.acceleration[2], d.acceleration[3],
      d.gyro[1], d.gyro[2], d.gyro[3],
      d.temperature,
      d.orientation[1], d.orientation[2], d.orientation[3]>>

(* Halves of the bit patterns, and 16-bit raw values, the model decodes *)
Halves == {0, 1, 255, 256, 4660, 16256, 32768, 49024, 65535}

Raws == {0, 1, 131, 255, 256, 16384, 32767, 32768, 49152, 65405, 65535}

(* read_sensor_data on n bytes of contents f *)
DecodePayload ==
    /\ probe = NoProbe
    /\ \E n \in 0..BufSize, f \in Fills :
          LET r == ReadOf(n, f)
          IN  probe' = [kind |-> "payload", size |-> n, input |-> f,
                        out |-> read_sensor_data(r, Decode(r), clock)]
    /\ UNCHANGED <<enabled, caller, receiver, data, queue, threadVars, startRet,
                   initRet, hidInits, discoveries, consumerVars, waited,
                   restartVars, configVars, lockVars, displayVars>>

(* read_sensor_data on a 40-byte payload that holds one f32, in          *)
(* little-endian order, as component g of the float layout                *)
DecodeFloat ==
    /\ probe = NoProbe
    /\ \E hi \in Halves, lo \in Halves, g \in 0..9 :
          LET r == ReadOf(40, Placed(to_le_bytes(hi, lo), 4 * g))
          IN  probe' = [kind |-> "float", size |-> g, input |-> <<hi, lo>>,
                        out |-> read_sensor_data(r, Decode(r), clock)]
    /\ UNCHANGED <<enabled, caller, receiver, data, queue, threadVars, startRet,
                   initRet, hidInits, discoveries, consumerVars, waited,
                   restartVars, configVars, lockVars, displayVars>>

(* read_sensor_data on a payload of 6 to 15 bytes that holds one byte    *)
(* pair (raw / 256, raw % 256) as axis a: 0..2 acceleration, 3..5 gyro    *)
DecodeFixed ==
    /\ probe = NoProbe
    /\ \E raw \in Raws, a \in 0..5, n \in 6..15 :
          LET r == ReadOf(n, Placed(<<raw \div 256, raw % 256>>, 2 * a))
          IN  probe' = [kind |-> "fixed", size |-> n, input |-> <<a, raw>>,
                        out |-> read_sensor_data(r, Decode(r), clock)]
    /\ UNCHANGED <<enabled, caller, receiver, data, queue, threadVars, startRet,
                   initRet, hidInits, discoveries, consumerVars, waited,
                   restartVars, configVars, lockVars, displayVars>>

(* Discovery on its own: hosts of up to MaxDevices attached devices, no   *)
(* two with the same identifiers, in every order of enumeration            *)
Attachable ==
    {Mpu(TRUE), Mpu(FALSE), DualShock(TRUE), DualShock(FALSE), SwitchPro(TRUE),
     UsbGyro(TRUE), Keyboard}

ProbeHosts ==
    {api \in UNION {[1..n -> Attachable] : n \in 0..MaxDevices} :
        \A i, j \in 1..Len(api) :
            (api[i].vid = api[j].vid /\ api[i].pid = api[j].pid) => i = j}

(* find_supported_sensor on one host *)
Discover ==
    /\ probe = NoProbe
    /\ \E api \in ProbeHosts :
          probe' = [kind |-> "discover", size |-> Len(api), input |-> api,
                    out |-> find_supported_sensor(api)]
    /\ UNCHANGED <<enabled, caller, receiver, data, queue, threadVars, startRet,
                   initRet, hidInits, discoveries, consumerVars, waited,
                   restartVars, configVars, lockVars, displayVars>>

(* Product and manufacturer strings of devices that are not in the table *)
Names ==
    { <<>>,
      <<"A","c","m","e">>,
      <<"U","S","B"," ","G","Y","R","O">>,
      <<"A","c","c","e","l","-","3">>,
      <<"I","M","U"," ","C","o","r","p">>,
      <<"e","M","o","t","i","o","n">> }

(* What the host enumerates before the named device: nothing, a device     *)
(* without a telling name, or a device of the table that cannot be opened  *)
Leads == { <<>>, <<Keyboard>>, <<Mpu(FALSE)>> }

(* find_supported_sensor on a host whose last device is outside the table  *)
(* and carries the given strings                                           *)
ScanNames ==
    /\ probe = NoProbe
    /\ \E product \in Names, manufacturer \in Names, openable \in BOOLEAN,
          lead \in Leads :
          LET api == lead \o <<Dev(4660, 16, product, manufacturer, openable)>>
          IN  probe' = [kind |-> "scan", size |-> Len(api), input |-> api,
                        out |-> find_supported_sensor(api)]
    /\ UNCHANGED <<enabled, caller, receiver, data, queue, threadVars, startRet,
                   initRet, hidInits, discoveries, consumerVars, waited,
                   restartVars, configVars, lockVars, displayVars>>

(* find_supported_sensor called again on the host of a call that ended in  *)
(* NotFound.  It takes &self and &HidApi and keeps nothing of the call     *)
(* before.                                                                 *)
DiscoverAgain ==
    /\ probe.kind \in {"discover", "scan"}
    /\ ~probe.out.found
    /\ probe' = [kind |-> "again", size |-> probe.size, input |-> probe.input,
                 out |-> find_supported_sensor(probe.input)]
    /\ UNCHANGED <<enabled, caller, receiver, data, queue, threadVars, startRet,
                   initRet, hidInits, discoveries, consumerVars, waited,
                   restartVars, configVars, lockVars, displayVars>>

PartsNext ==
    \/ DecodePayload
    \/ DecodeFloat
    \/ DecodeFixed
    \/ Discover
    \/ ScanNames
    \/ DiscoverAgain

PartsSpec == Init /\ [][PartsNext]_vars

----------------------------------------------------------------------------
(* The configuration on its way to the thread: "hercules conf" commands    *)
(* change hercules.toml, then main loads it, applies the command line and  *)
(* SystemResources::new builds the Manager from config.sensor_config.      *)

ConfigInit ==
    /\ enabled = FALSE
    /\ caller = "none"
    /\ receiver = "None"
    /\ data = DefaultData(0)
    /\ queue = <<>>
    /\ pc = "NotStarted"
    /\ cur = NoItem
    /\ last_data = NoData
    /\ device = NotFound
    /\ clock = 1
    /\ startRet = "none"
    /\ initRet = "none"
    /\ hidInits = 0
    /\ discoveries = 0
    /\ recv = NoCall
    /\ produced = <<>>
    /\ delivered = <<>>
    /\ fresh = FALSE
    /\ burst = FALSE
    /\ odd = 0
    /\ waited = FALSE
    /\ retired = <<>>
    /\ probe = NoProbe
    /\ file_config = HerculesConfigDefault
    /\ update_interval_ms = SensorConfigDefault.update_interval_ms
    /\ setRet = "none"
    /\ file_exists = FALSE
    /\ confRet = NoConf
    /\ confs = 0
    /\ lock = "free"
    /\ reader = "idle"
    /\ latest = NoData
    /\ last_sensor_data = NoData

(* The properties and values the conf commands of the model name *)
ConfProperties ==
    {"update_interval_ms", "sensor_update_interval_ms", "show_sensors", "interval"}

ConfValues ==
    { <<"0">>, <<"5">>, <<"1","0">>, <<"1","0","0">>, <<"T","r","u","e">>, <<"m","s">> }

(* Variant of handle_conf_command: save() is called whatever set_property  *)
(* returned                                                                *)
handle_conf_command_always_saves(args) ==
    IF Len(args) < 4 \/ At(args, 2) # "->" THEN
        /\ confRet' = [ret |-> "Err: Invalid syntax", created |-> FALSE,
                       saved |-> FALSE]
        /\ UNCHANGED <<file_config, file_exists, setRet>>
    ELSE
        LET r == set_property(file_config, At(args, 1), At(args, 3))
        IN  /\ file_exists' = TRUE
            /\ setRet' = r.ret
            /\ file_config' = r.config
            /\ confRet' = [ret |-> IF r.ret = "Ok" THEN "Ok"
                                   ELSE "Err: Failed to set property",
                           created |-> ~file_exists, saved |-> TRUE]

(* ConfigManager::handle_conf_command(args), args[0] being "conf".         *)
(* ConfigManager::new() hands out the config of hercules.toml, or creates  *)
(* the file with the default config when there is none; file_config is     *)
(* what it hands out.  The file system does not fail, and the values stay  *)
(* in the range a TOML integer holds.                                      *)
handle_conf_command(args) ==
    IF Len(args) < 4 \/ At(args, 2) # "->" THEN
        /\ confRet' = [ret |-> "Err: Invalid syntax", created |-> FALSE,
                       saved |-> FALSE]
        /\ UNCHANGED <<file_config, file_exists, setRet>>
    ELSE
        LET r == set_property(file_config, At(args, 1), At(args, 3))
        IN  /\ file_exists' = TRUE
            /\ setRet' = r.ret
            /\ IF r.ret = "Ok"
               THEN /\ file_config' = r.config
                    /\ confRet' = [ret |-> "Ok", created |-> ~file_exists,
                                   saved |-> TRUE]
               ELSE /\ file_config' = file_config
                    /\ confRet' = [ret |-> "Err: Failed to set property",
                                   created |-> ~file_exists, saved |-> FALSE]

(* "hercules conf <property> -> <value>" *)
ConfCommand ==
    /\ caller = "none"
    /\ \E property \in ConfProperties, value \in ConfValues :
          handle_conf_command(<<"conf", property, "->", value>>)
    /\ UNCHANGED <<enabled, caller, receiver, data, queue, threadVars, startRet,
                   initRet, hidInits, discoveries, consumerVars, waited,
                   update_interval_ms, confs, restartVars, decoderVars, lockVars,
                   displayVars>>

(* main up to SensorManager::new inside SystemResources::new: the config   *)
(* that ConfigManager::new() hands out, the command line, and with         *)
(* show_sensors the Manager built from config.sensor_config; without it    *)
(* there is no Manager                                                     *)
Main ==
    /\ caller = "none"
    /\ \E arg \in {"", "sensors", "--sensors"} :
          LET config == MonitorConfig(file_config, arg)
          IN  IF config.show_sensors
              THEN /\ caller' = "constructed"
                   /\ enabled' = config.sensor_config.enabled
                   /\ update_interval_ms' = config.sensor_config.update_interval_ms
              ELSE /\ caller' = "unused"
                   /\ UNCHANGED <<enabled, update_interval_ms>>
    /\ file_exists' = TRUE
    /\ UNCHANGED <<receiver, data, queue, threadVars, startRet, initRet, hidInits,
                   discoveries, consumerVars, waited, file_config, setRet, confRet,
                   confs,
                   restartVars, decoderVars, lockVars, displayVars>>

ConfigNext ==
    \/ ConfCommand
    \/ Main
    \/ initialize_sensors
    \/ LoopRead /\ produced = <<>>
    \/ LoopStore
    \/ LoopSend
    \/ LoopRestore
    \/ LoopSleep

ConfigSpec == ConfigInit /\ [][ConfigNext]_vars

----------------------------------------------------------------------------
(* The conf command on its own: every property of set_property and one     *)
(* unknown name; a value that is a boolean only, one that is a number and  *)
(* a boolean, one that is neither; and argument lists that are too short,  *)
(* lack the separator, or carry an extra argument.  Up to MaxConfs         *)
(* commands are run one after the other.                                   *)

Properties ==
    {"update_interval_ms", "show_cpu", "show_memory", "show_disk", "show_network",
     "show_processes", "max_processes", "continuous", "show_compact_mode",
     "show_installer", "show_sensors", "sensor_update_interval_ms",
     "sensor_use_celsius"}

SetValues == { <<"T","r","u","e">>, <<"0">>, <<"m","s">> }

WellFormedArgs ==
    {<<"conf", property, "->", value>> :
        property \in Properties \cup {"interval"}, value \in SetValues}
      \cup { <<"conf", "show_sensors", "->", <<"T","r","u","e">>, <<"n","o","w">> >> }

MalformedArgs ==
    { <<"conf", "show_sensors">>,
      <<"conf", "show_sensors", "->">>,
      <<"conf", "show_sensors", "true">>,
      <<"conf", "show_sensors", "=", <<"T","r","u","e">> >>,
      <<"conf", "show_sensors", "=", <<"T","r","u","e">>, <<"n","o","w">> >> }

(* "hercules conf ..." with any of these argument lists, kept in probe *)
HandleConf ==
    /\ caller = "none"
    /\ confs < MaxConfs
    /\ confs' = confs + 1
    /\ \E args \in WellFormedArgs \cup MalformedArgs :
          /\ handle_conf_command(args)
          /\ probe' = [kind |-> "conf", size |-> Len(args), input |-> args,
                        out |-> <<>>]
    /\ UNCHANGED <<enabled, caller, receiver, data, queue, threadVars, startRet,
                   initRet, hidInits, discoveries, consumerVars, waited,
                   update_interval_ms, restartVars, lockVars, displayVars>>

ConfNext == HandleConf

ConfSpec == ConfigInit /\ [][ConfNext]_vars

----------------------------------------------------------------------------
(* The Mutex of the snapshot, step by step.  Both writes of the thread are *)
(* "if let Ok(mut data) = data_clone.lock() { *data = ..; }": the guard    *)
(* lives for that block only.  The copy of the 10 floats and the Instant   *)
(* is not atomic by itself, so it is taken in two parts.  No code panics   *)
(* while holding the guard, so lock() never returns a poisoned Err.        *)

(* Variant of Pending: the failure path resets the snapshot to the value    *)
(* the Manager was constructed with                                        *)
PendingReset ==
    IF pc \in {"store", "store.a", "store.b"} THEN cur.data ELSE DefaultData(0)

(* The value the thread is about to write *)
Pending == IF pc \in {"store", "store.a", "store.b"} THEN cur.data ELSE last_data

(* data_clone.lock() *)
LockSnapshot ==
    /\ pc \in {"store", "restore"}
    /\ lock = "free"
    /\ lock' = "thread"
    /\ pc' = IF pc = "store" THEN "store.a" ELSE "restore.a"
    /\ UNCHANGED <<enabled, caller, receiver, data, queue, cur, last_data, device,
                   clock, startRet, initRet, hidInits, discoveries, produced, burst,
                   odd, waited, consumerVars, reader, latest, restartVars,
                   decoderVars, configVars, displayVars>>

(* *data = ..: the first part of the copy *)
CopyFirst ==
    /\ pc \in {"store.a", "restore.a"}
    /\ data' = [data EXCEPT !.timestamp = Pending.timestamp,
                            !.acceleration = Pending.acceleration,
                            !.gyro = Pending.gyro]
    /\ pc' = IF pc = "store.a" THEN "store.b" ELSE "restore.b"
    /\ UNCHANGED <<enabled, caller, receiver, queue, cur, last_data, device,
                   clock, startRet, initRet, hidInits, discoveries, produced, burst,
                   odd, waited, consumerVars, lockVars, restartVars,
                   decoderVars, configVars, displayVars>>

(* Variant of CopyRest: the guard is kept until the end of the iteration *)
CopyRestKeepsGuard ==
    /\ pc \in {"store.b", "restore.b"}
    /\ data' = Pending
    /\ lock' = lock
    /\ pc' = IF pc = "store.b" THEN "send" ELSE "sleep"
    /\ UNCHANGED <<enabled, caller, receiver, queue, cur, last_data, device,
                   clock, startRet, initRet, hidInits, discoveries, produced, burst,
                   odd, waited, consumerVars, reader, latest, restartVars,
                   decoderVars, configVars, displayVars>>

(* the rest of the copy; the guard is dropped at the end of the block *)
CopyRest ==
    /\ pc \in {"store.b", "restore.b"}
    /\ data' = Pending
    /\ lock' = "free"
    /\ pc' = IF pc = "store.b" THEN "send" ELSE "sleep"
    /\ UNCHANGED <<enabled, caller, receiver, queue, cur, last_data, device,
                   clock, startRet, initRet, hidInits, discoveries, produced, burst,
                   odd, waited, consumerVars, reader, latest, restartVars,
                   decoderVars, configVars, displayVars>>

(* The owner calls get_latest_data *)
LatestCall ==
    /\ caller \in {"constructed", "ready"}
    /\ reader = "idle"
    /\ reader' = "calling"
    /\ UNCHANGED <<enabled, caller, receiver, data, queue, threadVars, startRet,
                   initRet, hidInits, discoveries, consumerVars, waited, lock,
                   latest, restartVars, decoderVars, configVars, displayVars>>

(* Variant of LatestLock: the snapshot is read without taking the Mutex *)
LatestLockSkipped ==
    /\ reader = "calling"
    /\ reader' = "unlocked"
    /\ UNCHANGED <<enabled, caller, receiver, data, queue, threadVars, startRet,
                   initRet, hidInits, discoveries, consumerVars, waited, lock,
                   latest, restartVars, decoderVars, configVars, displayVars>>

(* self.data.lock() *)
LatestLock ==
    /\ reader = "calling"
    /\ lock = "free"
    /\ lock' = "owner"
    /\ reader' = "locked"
    /\ UNCHANGED <<enabled, caller, receiver, data, queue, threadVars, startRet,
                   initRet, hidInits, discoveries, consumerVars, waited,
                   latest, restartVars, decoderVars, configVars, displayVars>>

(* *data, returned; the guard is dropped *)
LatestCopy ==
    /\ reader \in {"locked", "unlocked"}
    /\ latest' = data
    /\ lock' = IF reader = "locked" THEN "free" ELSE lock
    /\ reader' = "idle"
    /\ UNCHANGED <<enabled, caller, receiver, data, queue, threadVars, startRet,
                   initRet, hidInits, discoveries, consumerVars, waited,
                   restartVars, decoderVars, configVars, displayVars>>

LockNext ==
    \/ Start
    \/ LoopRead /\ Len(produced) < MaxLockReads
    \/ LockSnapshot
    \/ CopyFirst
    \/ CopyRest
    \/ LoopSend
    \/ LoopSleep
    \/ LatestCall
    \/ LatestLock
    \/ LatestCopy

LockSpec == Init /\ [][LockNext]_vars

----------------------------------------------------------------------------
(* The thread on a device whose reads return frames of several sizes: a    *)
(* timeout, a fragment too short for any layout, the 16-bit layout, the     *)
(* float layout in part and in full.                                        *)

FrameSizes == {1, 5, 6, 15, 20, 40}

(* Frame contents: the byte at offset i is i + 1, so no covered field is 0 *)
Ramp == [i \in 1..BufSize |-> i]

Frames == {ReadOf(n, Ramp) : n \in FrameSizes} \cup {ZeroRead}

(* match read_sensor_data(&device), with the frame it read kept in probe *)
LoopReadFrame ==
    /\ pc = "read"
    /\ Len(produced) < MaxFrameReads
    /\ \E r \in Frames :
          LET res == read_sensor_data(r, Decode(r), clock)
              item == [n |-> Len(produced) + 1, tag |-> res.tag,
                       data |-> res.data, err |-> res.err]
          IN  /\ cur' = item
              /\ produced' = Append(produced, item)
              /\ clock' = IF res.tag = "Ok" THEN clock + 1 ELSE clock
              /\ pc' = IF res.tag = "Ok" THEN "store" ELSE "send"
              /\ probe' = [kind |-> "frame", size |-> r.size, input |-> r.buf,
                            out |-> res]
    /\ UNCHANGED <<enabled, caller, receiver, data, queue, last_data, device,
                   startRet, initRet, hidInits, discoveries, burst, odd, waited,
                   consumerVars, restartVars, configVars, lockVars, displayVars>>

FrameNext ==
    \/ Start
    \/ LoopReadFrame
    \/ LoopStore
    \/ LoopSend
    \/ LoopRestore
    \/ LoopSleep

FrameSpec == Init /\ [][FrameNext]_vars

----------------------------------------------------------------------------
(* The display side: SystemResources owns the Manager that                 *)
(* initialize_sensors returned (or none, without show_sensors) and polls   *)
(* it once per refresh.  last_sensor_data starts as SensorData::default(). *)

(* Variant of refresh: an Err item resets last_sensor_data to the default *)
refreshClearsOnErr ==
    /\ caller \in {"ready", "unused"}
    /\ IF caller = "ready"
       THEN /\ IF receiver = "Some" /\ queue # <<>>
               THEN /\ recv' = Head(queue)
                    /\ queue' = Tail(queue)
                    /\ delivered' = Append(delivered, Head(queue))
               ELSE /\ recv' = NoItem
                    /\ UNCHANGED <<queue, delivered>>
            /\ fresh' = FALSE
            /\ last_sensor_data' =
                   IF recv'.tag = "Ok" THEN recv'.data
                   ELSE IF recv'.tag = "Err" THEN NoData
                   ELSE last_sensor_data
       ELSE UNCHANGED <<recv, queue, delivered, fresh, last_sensor_data>>
    /\ UNCHANGED <<enabled, caller, receiver, data, startRet, initRet, hidInits,
                   discoveries, threadVars, waited, restartVars, decoderVars,
                   configVars, lockVars>>

(* SystemResources::refresh, the part after the system metrics: one        *)
(* try_receive_update call if there is a Manager, and the match on it      *)
refresh ==
    /\ caller \in {"ready", "unused"}
    /\ IF caller = "ready"
       THEN /\ IF receiver = "Some" /\ queue # <<>>
               THEN /\ recv' = Head(queue)
                    /\ queue' = Tail(queue)
                    /\ delivered' = Append(delivered, Head(queue))
               ELSE /\ recv' = NoItem
                    /\ UNCHANGED <<queue, delivered>>
            /\ fresh' = FALSE
            /\ last_sensor_data' =
                   IF recv'.tag = "Ok" THEN recv'.data ELSE last_sensor_data
       ELSE UNCHANGED <<recv, queue, delivered, fresh, last_sensor_data>>
    /\ UNCHANGED <<enabled, caller, receiver, data, startRet, initRet, hidInits,
                   discoveries, threadVars, waited, restartVars, decoderVars,
                   configVars, lockVars>>

DisplayNext ==
    \/ Main
    \/ initialize_sensors
    \/ LoopRead /\ Len(produced) < MaxDisplayReads
    \/ LoopStore
    \/ LoopSend
    \/ LoopRestore
    \/ LoopSleep
    \/ refresh

DisplaySpec == ConfigInit /\ [][DisplayNext]_vars

----------------------------------------------------------------------------
(* The operating system keeps scheduling the spawned thread: a step the    *)
(* thread can take (a read_timeout that returns, a send that is not        *)
(* waiting, a sleep that ends) is eventually taken.  The Manager is        *)
(* started by a direct start() call.                                       *)
FairNext ==
    \/ Start
    \/ LoopStep
    \/ try_receive_update
    \/ DropManager

FairSpec == Init /\ [][FairNext]_vars /\ WF_vars(LoopStep)

----------------------------------------------------------------------------
(* Vocabulary of the properties *)

HasOk(h) == \E i \in 1..Len(h) : h[i].tag = "Ok"

(* The reading of the last successful outcome of h *)
LastOk(h) ==
    h[CHOOSE i \in 1..Len(h) :
        h[i].tag = "Ok" /\ \A j \in (i + 1)..Len(h) : h[j].tag # "Ok"].data

(* The outcome the thread holds and has not yet handed to the channel *)
InFlight == IF pc \in {"store", "send"} THEN <<cur>> ELSE <<>>

(* The outcomes whose iteration has reached the snapshot: an Ok outcome    *)
(* counts once the thread has stored it                                    *)
Published == IF pc = "store" THEN SubSeq(produced, 1, Len(produced) - 1) ELSE produced

(* The thread waits in send() for a slot of the full channel *)
WaitingOnFull == pc = "send" /\ receiver = "Some" /\ Len(queue) = Capacity

Running == pc \in {"read", "store", "send", "restore", "sleep"}

(* The threads of this Manager that are in their loop *)
RunningLoops ==
    (IF Running THEN 1 ELSE 0)
      + Cardinality({i \in 1..Len(retired) :
                       retired[i].pc \in {"read", "store", "send", "restore", "sleep"}})

(* The threads of this Manager whose next step writes the snapshot *)
Writers ==
    (IF pc \in {"store", "restore"} THEN 1 ELSE 0)
      + Cardinality({i \in 1..Len(retired) : retired[i].pc \in {"store", "restore"}})

(* A step of the thread on the outcome of a read that returned zero bytes: *)
(* the read itself, the send of its error, the write that follows           *)
ZeroReadStep ==
    /\ LoopRead \/ LoopSend \/ LoopRestore
    /\ cur'.err = "Zero bytes read"

(* The entries of the table that the host api lets be opened *)
Openable(api) ==
    {i \in 1..Len(supported_sensors) :
        \E j \in 1..Len(api) :
            /\ api[j].vid = supported_sensors[i].vid
            /\ api[j].pid = supported_sensors[i].pid
            /\ api[j].openable}

(* The device of a scanned host that is outside the table *)
Scanned == probe.input[Len(probe.input)]

(* The host api with its devices enumerated in the order p *)
Reordered(api, p) == [i \in 1..Len(api) |-> api[p[i]]]

(* The readings of the outcomes h *)
ReadingsOf(h) == {h[i].data : i \in {j \in 1..Len(h) : h[j].tag = "Ok"}}

(* The thread is inside one of its two lock blocks *)
InLockBlock == pc \in {"store.a", "store.b", "restore.a", "restore.b"}

(* The values a thread that never tears a write can leave in the snapshot: *)
(* the default of SensorManager::new, the default the thread starts its    *)
(* last_data with, and the readings it has read                            *)
WholeReadings ==
    {DefaultData(t) : t \in 0..clock} \cup ReadingsOf(produced)

(* What discovery can return on the hosts of the model *)
Discoverable == {find_supported_sensor(api) : api \in Hosts}

----------------------------------------------------------------------------
C4_ZeroUntilFirstSuccess ==
    ~HasOk(Published) => Fields(get_latest_data) = ZeroFields

\* C4 witness: a running thread has failed a read, written the snapshot on
\* the failure path, and no read has succeeded yet.
C4_Witness ==
    /\ produced # <<>>
    /\ ~HasOk(produced)
    /\ pc = "sleep"

\* C5 (as stated): try_receive_update returns None when the Manager has no
\* channel or when no item was enqueued since the previous call, and an
\* enqueued item otherwise.
C5_NoneUnlessFresh ==
    [][try_receive_update =>
          IF receiver = "Some" /\ fresh
          THEN recv'.tag \in {"Ok", "Err"}
          ELSE recv' = NoItem]_vars

\* C5 (amended): try_receive_update can always be called; it returns None
\* when the Manager has no channel or the channel holds no undelivered item
\* (a None with nothing enqueued since means the channel is empty), and
\* otherwise the oldest undelivered item; no enqueued item is returned by two
\* calls.
C5_NoneIffEmpty ==
    /\ caller \in {"constructed", "ready"} => ENABLED try_receive_update
    /\ recv.tag \in {"NoCall", "None", "Ok", "Err"}
    /\ (receiver = "None" /\ caller # "dropped") => recv.tag \in {"NoCall", "None"}
    /\ (receiver = "Some" /\ recv.tag = "None" /\ ~fresh) => queue = <<>>
    /\ recv.tag \in {"Ok", "Err"} =>
           /\ delivered # <<>>
           /\ recv = delivered[Len(delivered)]
           /\ recv = produced[recv.n]
    /\ \A i, j \in 1..Len(delivered) : i < j => delivered[i].n < delivered[j].n
    /\ \A i \in 1..Len(delivered) : \A j \in 1..Len(queue) :
           delivered[i].n < queue[j].n

\* C5 witness: the thread has been waiting with the eleventh outcome since
\* before the first call, and the second call returned an item although
\* nothing was enqueued since the first.
C5_Witness ==
    /\ burst
    /\ Len(delivered) = 2
    /\ recv = delivered[2]
    /\ pc = "send"
    /\ cur.n = Capacity + 1
    /\ Len(queue) = Capacity - 2

\* C6: the channel never holds more than 10 undelivered items, and the items
\* returned by successive try_receive_update calls are outcomes the thread
\* produced, in production order, none of them twice.
C6_BoundedFifo ==
    /\ Len(queue) <= Capacity
    /\ \A i \in 1..Len(delivered) :
           /\ delivered[i].n \in 1..Len(produced)
           /\ delivered[i] = produced[delivered[i].n]
    /\ \A i \in 1..(Len(delivered) - 1) : delivered[i].n < delivered[i + 1].n
    /\ \A i \in 1..(Len(queue) - 1) : queue[i].n < queue[i + 1].n

\* C6 witness: the channel is full and the owner has already received items.
C6_Witness == Len(queue) = Capacity /\ Len(delivered) >= 1

\* C7: on a Manager whose config.enabled is false, start() returns success
\* and changes nothing: no HID initialization, no discovery, no channel, no
\* thread; try_receive_update returns None and get_latest_data the default
\* the Manager was constructed with.
C7_DisabledStartIsNoOp ==
    ~enabled =>
        /\ startRet \in {"none", "Ok"}
        /\ (caller = "ready" /\ initRet = "none") => startRet = "Ok"
        /\ hidInits = 0 /\ discoveries = 0
        /\ receiver = "None" /\ queue = <<>>
        /\ pc = "NotStarted" /\ device = NotFound /\ produced = <<>>
        /\ get_latest_data = DefaultData(0)
        /\ recv.tag \in {"NoCall", "None"}

\* C7 witness: start() has returned Ok on a disabled Manager and a later
\* try_receive_update returned None.
C7_Witness == ~enabled /\ startRet = "Ok" /\ recv = NoItem

\* C8: the thread leaves NotStarted only in a start() call whose discovery
\* returned an opened device; when HID initialization or discovery fails,
\* no thread is spawned, no channel is installed, get_latest_data keeps
\* returning the zeroed default and try_receive_update returns None.
C8_RunningOnlyAfterDiscovery ==
    /\ pc # "NotStarted" =>
           /\ enabled /\ startRet = "Ok"
           /\ hidInits = 1 /\ discoveries = 1
           /\ device.found
           /\ device \in Discoverable
    /\ receiver # "None" => pc # "NotStarted"
    /\ startRet \notin {"none", "Ok"} =>
           /\ pc = "NotStarted" /\ receiver = "None" /\ queue = <<>>
           /\ ~device.found /\ produced = <<>>
           /\ get_latest_data = DefaultData(0)
           /\ recv.tag \in {"NoCall", "None"}

\* C8 witness: discovery ended in NotFound and a later try_receive_update
\* returned None.
C8_Witness == startRet = "Err: No compatible sensor found" /\ recv = NoItem

\* C9: initialize_sensors returns Ok(manager) also when start() failed; the
\* Manager then behaves as a disabled one and stays usable; HID
\* initialization and discovery are attempted at most once, and not at all
\* for a disabled configuration.
C9_InitializeAbsorbsFailure ==
    /\ initRet \in {"none", "Ok"}
    /\ initRet = "Ok" => caller # "constructed"
    /\ (caller = "ready" /\ startRet = "none") => initRet = "Ok"
    /\ hidInits <= 1 /\ discoveries <= hidInits
    /\ (initRet = "Ok" /\ ~enabled) => startRet = "none"
    /\ (initRet = "Ok" /\ startRet \notin {"none", "Ok"}) =>
           /\ pc = "NotStarted" /\ receiver = "None"
           /\ Fields(get_latest_data) = ZeroFields
           /\ recv.tag \in {"NoCall", "None"}
           /\ caller = "ready" => ENABLED try_receive_update

\* C9 witness: initialize_sensors returned Ok although HidApi::new()
\* failed inside start(), and the Manager was then polled.
C9_Witness ==
    /\ initRet = "Ok"
    /\ startRet = "Err: Failed to initialize HID API"
    /\ recv = NoItem

C11_TerminatesOnDrop ==
    /\ (receiver = "Dropped") ~> (pc = "Terminated")
    /\ (waited /\ receiver = "Dropped") ~> (pc = "Terminated")
    /\ [][(Running /\ pc' = "Terminated") => receiver = "Dropped"]_vars

\* C11 witness: the receiver was dropped while the thread was waiting on the
\* full channel, and the thread has terminated.
C11_Witness == waited /\ receiver = "Dropped" /\ pc = "Terminated"

\* C12 (as stated): after any sequence of start() calls on one Manager at
\* most one thread of that Manager is in its loop, and at most one thread is
\* about to write its snapshot.
C12_AtMostOneLoop == RunningLoops <= 1 /\ Writers <= 1

\* C13 (as stated): a read that returns zero bytes yields a ReadError, no Ok
\* item is enqueued for it, and no step of the thread on that outcome changes
\* the snapshot.
C13_SnapshotKept ==
    [][ZeroReadStep =>
          /\ cur'.tag = "Err"
          /\ queue' \in {queue, Append(queue, cur')}
          /\ data' = data]_vars

\* C13 (amended): a read that does not return a frame yields a ReadError and
\* never a reading; for zero bytes no Ok item is enqueued, and the measured
\* fields of the snapshot stay as they were; once a read has succeeded the
\* whole snapshot, timestamp included, stays as it was.
C13_ZeroBytesIsError ==
    [][/\ (LoopRead /\ odd' # odd) => (cur'.tag = "Err" /\ cur'.data = NoData)
       /\ ZeroReadStep =>
              /\ cur'.tag = "Err"
              /\ queue' \in {queue, Append(queue, cur')}
              /\ Fields(data') = Fields(data)
              /\ HasOk(produced) => data' = data]_vars

\* C13 witness: a read returned zero bytes before any read had succeeded; its
\* error is in the channel and the thread has written the snapshot.
C13_Witness ==
    /\ cur.err = "Zero bytes read"
    /\ pc = "sleep"
    /\ ~HasOk(produced)
    /\ \E j \in 1..Len(queue) : queue[j] = cur
    /\ Fields(data) = ZeroFields

\* C14: for a payload of n bytes the decoder returns a ReadError exactly when
\* n = 0, and otherwise a reading stamped with the current instant in which
\* acceleration is written from 6 bytes on (16-bit layout below 16 bytes,
\* float layout from 16 on), gyro for 12 <= n < 16 (16-bit layout) and from
\* 24 bytes on (float layout) but not for 16 <= n < 24, temperature from 28
\* bytes on and orientation from 40 bytes on; every field not written is
\* zero, and a payload of zero bytes decodes to zero fields.
C14_FieldGroupsBySize ==
    probe.kind = "payload" =>
        LET n == probe.size
            d == probe.out.data
            blank == \A i \in 1..BufSize : probe.input[i] = 0
        IN  /\ (n = 0) <=> (probe.out.tag = "Err")
            /\ n = 0 => probe.out.err = "Zero bytes read"
            /\ n > 0 => d.timestamp = clock
            /\ blank => Fields(d) = ZeroFields
            /\ ~blank =>
                  /\ (d.acceleration # Zero3) <=> (n >= 6)
                  /\ (d.gyro # Zero3) <=> ((n >= 12 /\ n < 16) \/ n >= 24)
                  /\ (d.temperature # F32Zero) <=> (n >= 28)
                  /\ (d.orientation # Zero3) <=> (n >= 40)
                  /\ \A i \in 1..3 :
                        /\ (n >= 6 /\ n < 16) => d.acceleration[i].k = "ratio"
                        /\ n >= 16 => d.acceleration[i].k = "bits"
                        /\ (n >= 12 /\ n < 16) => d.gyro[i].k = "ratio"
                        /\ n >= 24 => d.gyro[i].k = "bits"

\* C14 witness: a payload of 16 to 23 non-zero bytes was decoded: acceleration
\* is written in the float layout and gyro left zero.
C14_Witness ==
    /\ probe.kind = "payload"
    /\ probe.size = 20
    /\ probe.out.data.acceleration # Zero3
    /\ probe.out.data.gyro = Zero3

\* C15: a bit pattern split into four bytes, least significant byte at the
\* lowest offset, decodes through the float layout to the value with exactly
\* that bit pattern, in each of the ten components, and leaves the other
\* components zero.
C15_FloatRoundTrip ==
    probe.kind = "float" =>
        LET g == probe.size
            c == Components(probe.out.data)
        IN  /\ probe.out.tag = "Ok"
            /\ c[g + 1].k = "bits"
            /\ c[g + 1].a = probe.input[1]
            /\ c[g + 1].b = probe.input[2]
            /\ \A j \in 1..10 : j # g + 1 => c[j] = F32Zero

\* C15 witness: the pattern 0x3F800001 went through temperature: the low
\* byte 0x01 was at the lowest offset.
C15_Witness ==
    /\ probe.kind = "float"
    /\ probe.size = 6
    /\ probe.input = <<16256, 1>>
    /\ probe.out.data.temperature = F32Bits(16256, 1)

\* C16: in a payload of 6 to 15 bytes the byte pair (hi, lo) of an axis is
\* decoded as the signed 16-bit integer hi*256+lo (minus 65536 when the high
\* bit of hi is set), divided by 16384 for acceleration and by 131 for gyro;
\* a gyro pair is decoded only from 12 bytes on; raw 16384 gives acceleration
\* 1.0 and raw 131 gives gyro 1.0.
C16_FixedPointFallback ==
    probe.kind = "fixed" =>
        LET a == probe.input[1]
            raw == probe.input[2]
            n == probe.size
            signed == IF raw >= 32768 THEN raw - 65536 ELSE raw
            v == Components(probe.out.data)[a + 1]
            one == [k |-> "ratio", a |-> 1, b |-> 1]
            decoded == a < 3 \/ n >= 12
        IN  /\ probe.out.tag = "Ok"
            /\ signed \in -32768..32767
            /\ (decoded /\ signed # 0) =>
                  /\ v.k = "ratio"
                  /\ v.a = signed
                  /\ v.b = IF a < 3 THEN 16384 ELSE 131
                  /\ (raw \div 256 >= 128) <=> (v.a < 0)
            /\ (~decoded \/ signed = 0) => v = F32Zero
            /\ (decoded /\ a < 3 /\ raw = 16384) => v.a = v.b
            /\ (decoded /\ a >= 3 /\ raw = 131) => v.a = v.b

\* C16 witness: the pair 0x80 0x00 at an acceleration axis decoded to
\* -32768 / 16384.
C16_Witness ==
    /\ probe.kind = "fixed"
    /\ probe.input = <<1, 32768>>
    /\ probe.out.data.acceleration[2] = F32Ratio(-32768, AccelDiv)

\* C17: when the host lets one or several entries of the table be opened,
\* discovery returns the device of the entry that comes first in the table,
\* whatever the order in which the host enumerates its devices and also when
\* a device that the name scan would accept is enumerated before it.
C17_TableOrderWins ==
    probe.kind = "discover" =>
        LET api == probe.input
            can == Openable(api)
        IN  can # {} =>
                LET first == CHOOSE i \in can : \A k \in can : i <= k
                IN  /\ probe.out.found
                    /\ probe.out.vid = supported_sensors[first].vid
                    /\ probe.out.pid = supported_sensors[first].pid
                    /\ \A p \in Permutations(1..Len(api)) :
                          find_supported_sensor(Reordered(api, p)) = probe.out

\* C17 witness: the host enumerates a device with "GYRO" in its name, then
\* the Switch Pro controller, then the DualShock 4; discovery returned the
\* DualShock 4, the earlier entry of the table.
C17_Witness ==
    /\ probe.kind = "discover"
    /\ probe.input = <<UsbGyro(TRUE), SwitchPro(TRUE), DualShock(TRUE)>>
    /\ probe.out = Opened(1356, 2508)

\* C18 (as stated): the interval a thread in its loop sleeps for is strictly
\* positive, whatever the conf commands and the command line that led to
\* its Manager.
C18_PositiveInterval == Running => update_interval_ms > 0

\* C19: start() returns an error exactly when HidApi::new() failed or
\* discovery ended in NotFound, and then leaves the Manager without a
\* receiver, without a thread and with its snapshot as constructed; after a
\* successful start() get_latest_data returns a reading (a default or one the
\* thread read), a failed read does not end the thread, and the failure shows
\* only as an Err item that try_receive_update returns.
C19_OnlyStartFailuresPropagate ==
    /\ startRet = "Err: Failed to initialize HID API" <=>
           (hidInits = 1 /\ discoveries = 0)
    /\ startRet = "Err: No compatible sensor found" <=>
           (discoveries = 1 /\ pc = "NotStarted")
    /\ startRet \notin {"none", "Ok"} =>
           /\ startRet \in {"Err: Failed to initialize HID API",
                             "Err: No compatible sensor found"}
           /\ receiver = "None"
           /\ get_latest_data = DefaultData(0)
    /\ (startRet = "Ok" /\ enabled) =>
           /\ pc # "NotStarted"
           /\ get_latest_data \in
                  {DefaultData(0), last_data} \cup ReadingsOf(produced)
           /\ pc = "Terminated" => receiver = "Dropped"
           /\ recv.tag = "Err" => (recv.data = NoData /\ recv = produced[recv.n])
           /\ receiver = "Some" =>
                  \A i \in 1..Len(produced) :
                      produced[i].tag = "Err" =>
                          \E s \in {delivered, queue, InFlight} :
                              \E j \in 1..Len(s) : s[j] = produced[i]

\* C19 witness: start() was called directly, HidApi::new() failed, start()
\* returned the error and the Manager was polled afterwards.
C19_Witness ==
    /\ startRet = "Err: Failed to initialize HID API"
    /\ initRet = "none"
    /\ caller = "ready"
    /\ recv = NoItem

\* C20: the thread holds the Mutex of the snapshot only inside one of its two
\* copy blocks, never in the device read, the decode, the send or the sleep;
\* the owner holds it only for its copy; whoever holds it can take its next
\* step without waiting, so a get_latest_data call that waits gets the lock;
\* and get_latest_data returns a whole reading: a default or one value the
\* thread read, never parts of two.
C20_LockOnlyAroundCopy ==
    /\ lock \in {"free", "thread", "owner"}
    /\ lock = "thread" <=> InLockBlock
    /\ lock = "owner" => reader = "locked"
    /\ pc \in {"NotStarted", "read", "send", "sleep", "Terminated"} => lock # "thread"
    /\ lock = "thread" => ENABLED (CopyFirst \/ CopyRest)
    /\ lock = "owner" => ENABLED LatestCopy
    /\ (reader = "calling" /\ lock = "free") => ENABLED LatestLock
    /\ latest \in WholeReadings
    /\ reader = "locked" => data \in WholeReadings

\* C20 witness: a get_latest_data call waits for the Mutex while the thread
\* is half way through writing its first reading, the snapshot holding parts
\* of two values.
C20_Witness ==
    /\ reader = "calling"
    /\ pc = "store.b"
    /\ lock = "thread"
    /\ data \notin WholeReadings

\* C21: the snapshot only moves forward in capture order: no write of the
\* single loop replaces its value by one captured earlier, so of two
\* get_latest_data calls the later never returns a value captured before the
\* value the earlier returned; a call may skip readings.
C21_ReadersNeverGoBack ==
    /\ [][data'.timestamp >= data.timestamp]_vars
    /\ [][LatestCopy => latest'.timestamp >= latest.timestamp]_vars
    /\ [][(LatestCopy /\ latest \in ReadingsOf(produced)) =>
              latest' \in ReadingsOf(produced)]_vars

\* C21 witness: a get_latest_data call returned the first reading, the loop
\* has since stored a later one, and a second call holds the lock and is
\* about to copy it.
C21_Witness ==
    /\ reader = "locked"
    /\ latest \in ReadingsOf(produced)
    /\ data \in ReadingsOf(produced)
    /\ data.timestamp > latest.timestamp

\* C22: every reading the decoder returns is built on a fresh default: a
\* field the payload does not reach is zero in it, whatever the reading
\* before it held; a payload of 6 to 15 bytes gives temperature 0 and
\* orientation (0,0,0); and the reading is the decode of its payload alone.
C22_DecodeIndependent ==
    (probe.kind = "frame" /\ probe.out.tag = "Ok") =>
        LET n == probe.size
            d == cur.data
        IN  /\ cur.tag = "Ok"
            /\ n < 6 => d.acceleration = Zero3
            /\ (n < 12 \/ (n >= 16 /\ n < 24)) => d.gyro = Zero3
            /\ n < 28 => d.temperature = F32Zero
            /\ n < 40 => d.orientation = Zero3
            /\ (n >= 6 /\ n <= 15) =>
                   /\ d.temperature = F32Zero
                   /\ d.orientation = Zero3
                   /\ d.acceleration # Zero3
            /\ Fields(d) = Fields(Decode(ReadOf(n, Ramp)))

\* C22 witness: the thread's previous reading came from a full frame, with
\* temperature and orientation set, and the reading it holds now came from a
\* 6-byte frame and has both at zero.
C22_Witness ==
    /\ probe.kind = "frame"
    /\ probe.size = 6
    /\ pc = "send"
    /\ last_data.temperature # F32Zero
    /\ last_data.orientation # Zero3
    /\ cur.data.temperature = F32Zero
    /\ cur.data.orientation = Zero3

\* C23 (as stated): when no entry of the table can be opened, a device whose
\* lower-cased product string or lower-cased manufacturer string contains one
\* of gyro, accel, imu, motion is a candidate of the name scan: if the host
\* lets it be opened, discovery returns it.
C23_AnyKeywordEitherString ==
    LET keywords == { <<"g","y","r","o">>, <<"a","c","c","e","l">>,
                      <<"i","m","u">>, <<"m","o","t","i","o","n">> }
        mentions(info) ==
            \E kw \in keywords :
                \/ contains(to_lowercase(info.product), kw)
                \/ contains(to_lowercase(info.manufacturer), kw)
    IN  probe.kind = "scan" =>
            /\ mentions(Scanned) <=> LooksLikeImu(Scanned)
            /\ (mentions(Scanned) /\ Scanned.openable) =>
                   probe.out = Opened(Scanned.vid, Scanned.pid)

\* C24 (as stated): discovery ends in NotFound exactly when no entry of the
\* table can be opened and no enumerated device whose product or manufacturer
\* string contains a keyword can be opened; a device found by name is
\* returned only when no entry of the table could be opened; and a call
\* after a failed one, on the same host, fails again.
C24_NotFoundExactlyWhen ==
    LET keywords == { <<"g","y","r","o">>, <<"a","c","c","e","l">>,
                      <<"i","m","u">>, <<"m","o","t","i","o","n">> }
        mentions(info) ==
            \E kw \in keywords :
                \/ contains(to_lowercase(info.product), kw)
                \/ contains(to_lowercase(info.manufacturer), kw)
        api == probe.input
        named == {j \in 1..Len(api) :
                     /\ mentions(api[j])
                     /\ ApiOpen(api, api[j].vid, api[j].pid).found}
    IN  probe.kind \in {"discover", "scan", "again"} =>
            /\ ~probe.out.found <=> (Openable(api) = {} /\ named = {})
            /\ (probe.out.found /\ Openable(api) # {}) =>
                   \E i \in Openable(api) :
                       probe.out = Opened(supported_sensors[i].vid,
                                          supported_sensors[i].pid)
            /\ probe.kind = "again" => ~probe.out.found

\* C25: a reading is in the snapshot before it is offered to the channel:
\* the reading the thread is sending is the snapshot's value, and the
\* snapshot is never older than a reading that is queued or that
\* try_receive_update has returned; it holds that reading or one captured
\* after it.
C25_StoredBeforeSent ==
    /\ (pc = "send" /\ cur.tag = "Ok") => data = cur.data
    /\ \A j \in 1..Len(queue) :
           queue[j].tag = "Ok" =>
               /\ data \in ReadingsOf(produced)
               /\ data.timestamp >= queue[j].data.timestamp
    /\ recv.tag = "Ok" =>
           /\ data \in ReadingsOf(produced)
           /\ data.timestamp >= recv.data.timestamp
           /\ data.timestamp = recv.data.timestamp => data = recv.data

\* C25 witness: try_receive_update returned the first reading while the
\* snapshot already holds a later one.
C25_Witness ==
    /\ recv.tag = "Ok"
    /\ recv.n = 1
    /\ data \in ReadingsOf(produced)
    /\ data.timestamp > recv.data.timestamp

\* C26: a read that returns 1 to 5 bytes is a success: its outcome is an Ok
\* item with acceleration, gyro, orientation and temperature all zero and the
\* timestamp of the read; the thread writes it over the snapshot, whatever
\* the snapshot held, and enqueues it.
C26_ShortFrameIsZeroReading ==
    (probe.kind = "frame" /\ probe.size >= 1 /\ probe.size <= 5) =>
        /\ cur.tag = "Ok"
        /\ cur = produced[Len(produced)]
        /\ Fields(cur.data) = ZeroFields
        /\ cur.data.timestamp = clock - 1
        /\ pc \in {"store", "send", "sleep", "read"}
        /\ pc # "store" => data = cur.data
        /\ pc \in {"sleep", "read"} =>
               /\ queue # <<>>
               /\ queue[Len(queue)] = cur
               /\ last_data = cur.data

\* C26 witness: the snapshot held a reading with non-zero fields, a 5-byte
\* read followed, and the snapshot now holds the all-zero reading, which is
\* also in the channel.
C26_Witness ==
    /\ probe.kind = "frame"
    /\ probe.size = 5
    /\ pc = "sleep"
    /\ Len(produced) >= 2
    /\ produced[Len(produced) - 1].tag = "Ok"
    /\ Fields(produced[Len(produced) - 1].data) # ZeroFields
    /\ Fields(data) = ZeroFields
    /\ queue[Len(queue)].tag = "Ok"
    /\ queue[Len(queue)].data = data

\* C27: a refresh takes at most one item from the channel; when that item is
\* Ok its reading becomes last_sensor_data, and when it is Err, or the
\* channel is empty, or there is no Manager, last_sensor_data stays as it
\* was; nothing else changes last_sensor_data, which is always the zeroed
\* default it started with or a reading the loop enqueued.
C27_RefreshTakesOne ==
    /\ [](last_sensor_data \in {NoData} \cup ReadingsOf(delivered))
    /\ [][refresh =>
            /\ Len(queue') \in {Len(queue), Len(queue) - 1}
            /\ Len(delivered') = Len(delivered) + (Len(queue) - Len(queue'))
            /\ IF caller = "ready" /\ receiver = "Some" /\ queue # <<>>
                  /\ Head(queue).tag = "Ok"
               THEN /\ last_sensor_data' = Head(queue).data
                    /\ queue' = Tail(queue)
               ELSE last_sensor_data' = last_sensor_data]_vars
    /\ [][last_sensor_data' # last_sensor_data => refresh]_vars

\* C27 witness: a refresh took an Err item and left in place the reading an
\* earlier refresh had taken, with further items still in the channel.
C27_Witness ==
    /\ recv.tag = "Err"
    /\ last_sensor_data \in ReadingsOf(delivered)
    /\ Fields(last_sensor_data) # ZeroFields
    /\ Len(queue) >= 1

\* C28: in the config that a sequence of conf commands leaves, whether they
\* succeeded or failed, show_sensors equals sensor_config.enabled; a
\* set_property of show_sensors that succeeds sets both to the parsed value,
\* one that fails changes neither, and a set_property of any other property,
\* known or unknown, changes neither.
C28_ShowSensorsMirrorsEnabled ==
    /\ file_config.show_sensors = file_config.sensor_config.enabled
    /\ \A value \in SetValues :
           LET r == set_property(file_config, "show_sensors", value)
               b == parse_bool(value)
           IN  /\ r.config.show_sensors = r.config.sensor_config.enabled
               /\ r.config.show_sensors =
                      IF b.ok THEN b.value ELSE file_config.show_sensors
               /\ (r.ret = "Ok") <=> b.ok
    /\ \A property \in (Properties \cup {"interval"}) \ {"show_sensors"},
          value \in SetValues :
           LET r == set_property(file_config, property, value)
           IN  /\ r.config.show_sensors = file_config.show_sensors
               /\ r.config.sensor_config.enabled = file_config.sensor_config.enabled

\* C28 witness: show_sensors was set to true, and a later command that
\* failed left both fields true.
C28_Witness ==
    /\ confs >= 2
    /\ file_config.show_sensors
    /\ file_config.sensor_config.enabled
    /\ setRet \notin {"none", "Ok"}

\* C29: set_property fails exactly for an unknown property or a value that
\* does not parse as the property's type, and then returns the config with
\* every field as it was; handle_conf_command then returns an error and does
\* not save: the config of the file stays as it was; a command with fewer
\* than 4 arguments or without "->" as its third is rejected without the
\* config file having been loaded, created or written, and only such a
\* command is.
C29_FailedChangeHasNoEffect ==
    /\ [](\A property \in Properties \cup {"interval"}, value \in SetValues :
             LET r == set_property(file_config, property, value)
                 numeric == property \in {"update_interval_ms", "max_processes",
                                          "sensor_update_interval_ms"}
                 fails == \/ property \notin Properties
                          \/ numeric /\ ~parse_u64(value).ok
                          \/ ~numeric /\ ~parse_bool(value).ok
             IN  /\ (r.ret # "Ok") <=> fails
                 /\ r.ret # "Ok" => r.config = file_config)
    /\ [](probe.kind = "conf" =>
             /\ (Len(probe.input) < 4 \/ probe.input[3] # "->")
                    <=> (confRet.ret = "Err: Invalid syntax")
             /\ confRet.ret \in {"Ok", "Err: Invalid syntax",
                                 "Err: Failed to set property"}
             /\ (confRet.ret = "Ok") <=> confRet.saved
             /\ confRet.ret = "Err: Failed to set property" =>
                    setRet \notin {"none", "Ok"}
             /\ confRet.ret = "Err: Invalid syntax" => ~confRet.created)
    /\ [][(HandleConf /\ confRet'.ret # "Ok") => file_config' = file_config]_vars
    /\ [][(HandleConf /\ confRet'.ret = "Err: Invalid syntax") =>
              UNCHANGED <<file_config, file_exists, setRet>>]_vars

\* C29 witness: after a change that was saved, a command with a value that
\* does not parse returned an error and nothing was saved.
C29_Witness ==
    /\ probe.kind = "conf"
    /\ confs >= 2
    /\ file_config # HerculesConfigDefault
    /\ confRet.ret = "Err: Failed to set property"
    /\ ~confRet.saved
    /\ probe.input[4] = <<"m","s">>

====
